---- MODULE Spec2Model ----
(***************************************************************************)
(* Model of DentAnX's AnnotationManager (data/annotation_manager.py): the  *)
(* per-image annotation store (image directory, annotation files, cache)   *)
(* and export_datasets (classification, seeded split, oriented-box label   *)
(* export, ROI landmark export, held-out copy).                            *)
(*                                                                         *)
(* Numbers.  Record fields (x, y, cx, cy, width, height, xmin, ...) are    *)
(* whole pixels.  The code computes in floating point; the model computes  *)
(* the same expressions exactly, in scaled integers:                       *)
(*   - a box centre is kept doubled (cx2 = 2*cx), so that the legacy       *)
(*     centre (xmin+xmax)/2 needs no division;                             *)
(*   - cos and sin of a rotation are kept as fifths (Cos5, Sin5), which is *)
(*     exact for the right angles and for the 3-4-5 angle;                 *)
(*   - corner and ROI coordinates are therefore tenths of a pixel;         *)
(*   - a formatted coordinate ("%.6f") is its count of millionths.         *)
(***************************************************************************)
EXTENDS Integers, Sequences, FiniteSets, Bags, TLC

VARIABLES image_dir, images, disk, cache, dest, last, op, prev, persisted, nops,
          image_files, current_index, current_dimensions,
          pending_points, pending_bboxes, pending_bone_lines,
          autosave_timer, canvas, running, edited,
          script

\* The fields of the main window and of its canvas.
window ==
  <<image_files, current_index, current_dimensions,
    pending_points, pending_bboxes, pending_bone_lines,
    autosave_timer, canvas, running, edited>>

\* The annotation manager with the window that drives it: everything but
\* the conversion script.
application ==
  <<image_dir, images, disk, cache, dest, last, op, prev, persisted, nops, window>>

vars == <<application, script>>

\* ------------------------------------------------------------------------
\* Bounds of the model
\* ------------------------------------------------------------------------
\* Number of operations in one run of the program.
MaxOps == 4

\* The number of events of the window a behaviour is followed for.
MaxEvents == 5

\* The number of calls and events the canvas on its own is followed for.
MaxCalls == 5

MaxEdits == 2

\* ------------------------------------------------------------------------
\* The file universe
\* ------------------------------------------------------------------------
\* File names with a supported extension; two of them share a stem.
Names == {"a.jpg", "a.png", "b.png"}

\* Names in the order of files.sort(key=lambda n: n.lower()).
SortedNames == <<"a.jpg", "a.png", "b.png">>

\* Path(name).stem
Stem(n) == IF n \in {"a.jpg", "a.png"} THEN "a" ELSE "b"

Stems == {Stem(n) : n \in Names}

NoDir == "none"

RootDir == "root"

\* Size of every decodable image of the directory (img.size).
ImgW == 1000

ImgH == 800

\* ------------------------------------------------------------------------
\* utils/landmarks.py
\* ------------------------------------------------------------------------
BBOX_CLASSES == <<"Unlabeled", "Tooth", "Crest", "PDL", "LD">>

\* list.index(label), 0-based; -1 stands for ValueError.
ListIndex(seq, x) ==
  IF \E i \in DOMAIN seq : seq[i] = x
  THEN (CHOOSE i \in DOMAIN seq : seq[i] = x /\ \A j \in 1..(i-1) : seq[j] # x) - 1
  ELSE -1

\* ------------------------------------------------------------------------
\* Sequence helpers
\* ------------------------------------------------------------------------
RECURSIVE Flatten(_)
Flatten(ss) == IF ss = <<>> THEN <<>> ELSE Head(ss) \o Flatten(Tail(ss))

Range(s) == {s[i] : i \in DOMAIN s}

Max(a, b) == IF a >= b THEN a ELSE b

Min(a, b) == IF a <= b THEN a ELSE b

\* Python's records[:k]
PySliceTo(s, k) ==
  LET n == Len(s)
      e == IF k < 0 THEN Max(n + k, 0) ELSE Min(k, n)
  IN SubSeq(s, 1, e)

\* Python's records[k:]
PySliceFrom(s, k) ==
  LET n == Len(s)
      b == IF k < 0 THEN Max(n + k, 0) ELSE Min(k, n)
  IN SubSeq(s, b + 1, n)

\* int(x) of the quotient num/den, den > 0: truncation toward zero.
TruncDiv(num, den) == IF num >= 0 THEN num \div den ELSE -((-num) \div den)

\* ------------------------------------------------------------------------
\* Geometry of export_bbox / export_landmark
\* ------------------------------------------------------------------------
\* 5*cos(radians(rotation)) and 5*sin(radians(rotation)).  Rotation 53
\* stands for the 3-4-5 angle (atan(4/3), 53.13 degrees).
Cos5(rot) ==
  CASE rot = 0 -> 5 [] rot = 90 -> 0 [] rot = 180 -> -5 [] rot = 270 -> 0
    [] rot = 53 -> 3

Sin5(rot) ==
  CASE rot = 0 -> 0 [] rot = 90 -> 5 [] rot = 180 -> 0 [] rot = 270 -> -5
    [] rot = 53 -> 4

\* bbox.get("label", "Unlabeled")
BoxLabel(bbox) == IF "label" \in DOMAIN bbox THEN bbox.label ELSE "Unlabeled"

\* Mutant of BoxGeometry: the legacy height is taken from the x extent.
BoxGeometryLegacySlip(bbox) ==
  IF "cx" \in DOMAIN bbox
  THEN [cx2 |-> 2 * bbox.cx, cy2 |-> 2 * bbox.cy,
        w |-> bbox.width, h |-> bbox.height,
        rotation |-> IF "rotation" \in DOMAIN bbox THEN bbox.rotation ELSE 0]
  ELSE [cx2 |-> bbox.xmin + bbox.xmax, cy2 |-> bbox.ymin + bbox.ymax,
        w |-> bbox.xmax - bbox.xmin, h |-> bbox.xmax - bbox.xmin,
        rotation |-> 0]

\* "Handle formats": the box as (cx, cy, w, h, rotation), centre doubled.
BoxGeometry(bbox) ==
  IF "cx" \in DOMAIN bbox
  THEN [cx2 |-> 2 * bbox.cx, cy2 |-> 2 * bbox.cy,
        w |-> bbox.width, h |-> bbox.height,
        rotation |-> IF "rotation" \in DOMAIN bbox THEN bbox.rotation ELSE 0]
  ELSE [cx2 |-> bbox.xmin + bbox.xmax, cy2 |-> bbox.ymin + bbox.ymax,
        w |-> bbox.xmax - bbox.xmin, h |-> bbox.ymax - bbox.ymin,
        rotation |-> 0]

\* Mutant of CornerSigns: the winding starts at the bottom-left corner.
CornerSignsFromBottomLeft == << <<-1, 1>>, <<1, 1>>, <<1, -1>>, <<-1, -1>> >>

\* corners_local, as signs of (hw, hh).
CornerSigns == << <<-1, -1>>, <<1, -1>>, <<1, 1>>, <<-1, 1>> >>

\* gx = cx + dx*cos_a - dy*sin_a, in tenths of a pixel.
CornerX10(g, sg) ==
  5 * g.cx2 + sg[1] * g.w * Cos5(g.rotation) - sg[2] * g.h * Sin5(g.rotation)

\* gy = cy + dx*sin_a + dy*cos_a, in tenths of a pixel.
CornerY10(g, sg) ==
  5 * g.cy2 + sg[1] * g.w * Sin5(g.rotation) + sg[2] * g.h * Cos5(g.rotation)

\* The first k decimal digits of num/den (0 <= num < den) and the remainder.
RECURSIVE DecDigits(_, _, _)
DecDigits(num, den, k) ==
  IF k = 0 THEN <<0, num>>
  ELSE LET p == DecDigits(num, den, k - 1)
       IN <<p[1] * 10 + ((p[2] * 10) \div den), (p[2] * 10) % den>>

\* f"{c:.6f}" of c = num/den in [0, 1): millionths, rounded to nearest.
Format6(num, den) ==
  LET p == DecDigits(num, den, 6)
  IN p[1] + (IF 2 * p[2] >= den THEN 1 ELSE 0)

\* Mutant of Normalize: the quotient is formatted without the clamp.
NormalizeNoClamp(g10, img) == Format6(g10, 10 * img)

\* max(0.0, min(1.0, g / img)) then formatted; g10 in tenths, img in pixels.
Normalize(g10, img) ==
  IF g10 <= 0 THEN 0
  ELSE IF g10 >= 10 * img THEN 1000000
  ELSE Format6(g10, 10 * img)

\* corners_global of one box: nx, ny of the four corners.
CornersGlobal(bbox, img_w, img_h) ==
  LET g == BoxGeometry(bbox)
  IN Flatten([k \in 1..4 |->
       <<Normalize(CornerX10(g, CornerSigns[k]), img_w),
         Normalize(CornerY10(g, CornerSigns[k]), img_h)>>])

\* Mutant of ClassId: the reserved entry is not subtracted.
ClassIdNoOffset(label) ==
  LET i == ListIndex(BBOX_CLASSES, label)
  IN IF i = -1 THEN 0 ELSE i

\* BBOX_CLASSES.index(label) - 1, or 0 on ValueError.
ClassId(label) ==
  LET i == ListIndex(BBOX_CLASSES, label)
  IN IF i = -1 THEN 0 ELSE i - 1

\* One label line: class id followed by the eight coordinates.
LabelLine(bbox, img_w, img_h) ==
  <<ClassId(BoxLabel(bbox))>> \o CornersGlobal(bbox, img_w, img_h)

\* The lines written to one label file: the labelled boxes, in order.
LabelLines(record) ==
  LET labelled == SelectSeq(record.bboxes, LAMBDA b : BoxLabel(b) # "Unlabeled")
  IN [k \in 1..Len(labelled) |-> LabelLine(labelled[k], record.width, record.height)]

\* "Transform Points": ROI-local coordinates of a point, in tenths.
RoiX10(pt, g) ==
  (2 * pt.x - g.cx2) * Cos5(g.rotation) + (2 * pt.y - g.cy2) * Sin5(g.rotation)
    + 5 * g.w

RoiY10(pt, g) ==
  (2 * pt.y - g.cy2) * Cos5(g.rotation) - (2 * pt.x - g.cx2) * Sin5(g.rotation)
    + 5 * g.h

\* Mutant of InRoi: the bounds are exclusive.
InRoiStrict(pt, g) ==
  /\ 0 < RoiX10(pt, g) /\ RoiX10(pt, g) < 10 * g.w
  /\ 0 < RoiY10(pt, g) /\ RoiY10(pt, g) < 10 * g.h

\* if 0 <= rx <= w and 0 <= ry <= h
InRoi(pt, g) ==
  /\ 0 <= RoiX10(pt, g) /\ RoiX10(pt, g) <= 10 * g.w
  /\ 0 <= RoiY10(pt, g) /\ RoiY10(pt, g) <= 10 * g.h

\* roi_points of one box.
RoiPoints(points, g) ==
  LET kept == SelectSeq(points, LAMBDA pt : InRoi(pt, g))
  IN [k \in 1..Len(kept) |->
       [class |-> kept[k].class, x10 |-> RoiX10(kept[k], g), y10 |-> RoiY10(kept[k], g),
        global_x |-> kept[k].x, global_y |-> kept[k].y]]

\* f"{Path(record.file_name).stem}_roi_{i}.png"
RoiFileName(file_name, i) == [stem |-> Stem(file_name), roi |-> i]

\* The manifest entry of box number i (0-based) of a record.
RoiEntry(record, i) ==
  LET g == BoxGeometry(record.bboxes[i + 1])
  IN [file_name |-> RoiFileName(record.file_name, i),
      width |-> g.w, height |-> g.h,
      points |-> RoiPoints(record.points, g),
      original_image |-> record.file_name,
      bbox |-> g]

\* Mutant of RoiEntries: boxes without a label get no entry.
RoiEntriesLabelledOnly(record) ==
  LET ks == SelectSeq([k \in 1..Len(record.bboxes) |-> k],
                      LAMBDA k : BoxLabel(record.bboxes[k]) # "Unlabeled")
  IN [j \in 1..Len(ks) |-> RoiEntry(record, ks[j] - 1)]

\* bbox["cy"], bbox["width"], ... raise KeyError on a box without the key.
BoxRaises(bbox) ==
  IF "cx" \in DOMAIN bbox
  THEN ~({"cy", "width", "height"} \subseteq DOMAIN bbox)
  ELSE ~({"xmin", "ymin", "xmax", "ymax"} \subseteq DOMAIN bbox)

\* The number of boxes the loop of export_landmark gets through, from box
\* i on, before a box raises and the except clause ends the record.
RECURSIVE BoxesDone(_, _)
BoxesDone(bboxes, i) ==
  IF i >= Len(bboxes) \/ BoxRaises(bboxes[i + 1]) THEN i
  ELSE BoxesDone(bboxes, i + 1)

\* dataset_entries contributed by one record whose image opens: one entry
\* per box, appended as the box is done.
RoiEntries(record) ==
  [k \in 1..BoxesDone(record.bboxes, 0) |-> RoiEntry(record, k - 1)]

\* ------------------------------------------------------------------------
\* The annotations the operations are exercised with
\* ------------------------------------------------------------------------
Obb(cx, cy, w, h, rot, label) ==
  [cx |-> cx, cy |-> cy, width |-> w, height |-> h, rotation |-> rot, label |-> label]

Legacy(xmin, ymin, xmax, ymax, label) ==
  [xmin |-> xmin, ymin |-> ymin, xmax |-> xmax, ymax |-> ymax, label |-> label]

Pt(x, y, class) == [x |-> x, y |-> y, class |-> class]

BTooth == Obb(500, 400, 200, 100, 0, "Tooth")

BLegacy == Legacy(400, 350, 600, 450, "Tooth")

BLegacyRot ==
  [xmin |-> 100, ymin |-> 100, xmax |-> 300, ymax |-> 200, rotation |-> 90, label |-> "Crest"]

BCrest == Obb(200, 150, 200, 100, 0, "Crest")

BUnlabeled == Obb(300, 300, 100, 100, 0, "Unlabeled")

BNoLabel == [cx |-> 300, cy |-> 300, width |-> 100, height |-> 100, rotation |-> 90]

BUnknown == Obb(200, 600, 100, 50, 180, "Molar")

BEdge == Obb(950, 750, 200, 100, 53, "PDL")

BOutside == Obb(1200, 900, 100, 100, 0, "LD")

Body(w, h, bboxes, points) ==
  [width |-> w, height |-> h, bboxes |-> bboxes, points |-> points]

BodyEmpty == Body(ImgW, ImgH, <<>>, <<>>)

BodyNoCrest == Body(ImgW, ImgH, <<BTooth>>, <<Pt(500, 400, "CEJ")>>)

BodyNoBox == Body(ImgW, ImgH, <<>>, <<Pt(500, 400, "CEJ"), Pt(0, 0, "CREST")>>)

BodyTooth == Body(ImgW, ImgH, <<BTooth>>, <<Pt(500, 400, "CEJ"), Pt(0, 0, "CREST")>>)

BodyMixed ==
  Body(ImgW, ImgH, <<BLegacy, BUnlabeled, BNoLabel, BUnknown>>,
       <<Pt(600, 450, "CREST"), Pt(400, 350, "CEJ"), Pt(300, 250, "APEX"),
         Pt(601, 450, "CEJ")>>)

BodyEdge ==
  Body(ImgW, ImgH, <<BEdge, BLegacyRot, BOutside, BCrest>>,
       <<Pt(950, 750, "CEJ"), Pt(200, 150, "CREST"), Pt(1000, 790, "CREST")>>)

\* A box written by another tool: no size, no label.
BBroken == [cx |-> 300, cy |-> 300, rotation |-> 0]

BodyBroken == Body(ImgW, ImgH, <<BTooth, BBroken>>, BodyTooth.points)

BodySmall == Body(500, 400, <<BTooth>>, <<Pt(500, 400, "CREST"), Pt(0, 0, "CEJ")>>)

Bodies ==
  {BodyEmpty, BodyNoCrest, BodyNoBox, BodyTooth, BodyMixed, BodyEdge, BodySmall}

\* AnnotationRecord
AnnotationRecord(file_name, width, height, points, bboxes, bone_lines) ==
  [file_name |-> file_name, width |-> width, height |-> height,
   points |-> points, bboxes |-> bboxes, bone_lines |-> bone_lines]

RecordOf(n, b) == AnnotationRecord(n, b.width, b.height, b.points, b.bboxes, <<>>)

\* The records a caller passes to save.
Records ==
  {RecordOf("a.png", b) : b \in Bodies}
    \cup {RecordOf("a.jpg", b) : b \in {BodyEmpty, BodyMixed}}
    \cup {RecordOf("b.png", b) : b \in {BodyNoCrest, BodyTooth, BodyEdge}}

\* export_datasets arguments: val_split as tenths (1.5 is out of range but
\* accepted), and the seed.  Every export writes to the same destination.
VDen == 10

ValSplits == {0, 2, 10, 15}

Seeds == {42, 7}

\* ------------------------------------------------------------------------
\* AnnotationManager: the store
\* ------------------------------------------------------------------------
\* f with f[k] = v (dict assignment / file write).
Put(f, k, v) == [x \in DOMAIN f \cup {k} |-> IF x = k THEN v ELSE f[x]]

\* data.get(key, default)
Get(data, key, default) == IF key \in DOMAIN data THEN data[key] ELSE default

\* _scan_images: the supported files of the directory, sorted by lower case.
ScanImages(dir, imgs) ==
  IF dir = NoDir THEN <<>>
  ELSE SelectSeq(SortedNames, LAMBDA n : imgs[n] # "absent")

\* annotation_path(file_name), as the stem of the JSON file.
AnnotationPath(file_name) == Stem(file_name)

\* An annotation file that json.load cannot decode.
CorruptDoc == [corrupt |-> TRUE]

IsCorrupt(data) == "corrupt" \in DOMAIN data

\* load raises (json.load, line 89): the file is not cached and its
\* annotation file does not decode.
LoadRaises(c, d, file_name) ==
  /\ file_name \notin DOMAIN c
  /\ AnnotationPath(file_name) \in DOMAIN d
  /\ IsCorrupt(d[AnnotationPath(file_name)])

\* Mutant of LoadResult: the cache is not consulted.
LoadResultSkipsCache(c, d, file_name, width, height) ==
  LET path == AnnotationPath(file_name)
      record == IF path \notin DOMAIN d
                THEN AnnotationRecord(file_name, width, height, <<>>, <<>>, <<>>)
                ELSE AnnotationRecord(Get(d[path], "file_name", file_name),
                                      Get(d[path], "width", width),
                                      Get(d[path], "height", height),
                                      Get(d[path], "points", <<>>),
                                      Get(d[path], "bboxes", <<>>),
                                      Get(d[path], "bone_lines", <<>>))
  IN [record |-> record, cache |-> Put(c, file_name, record)]

\* Mutant of LoadResult: a record read from the annotation file is returned,
\* but what is cached under file_name is a new empty record.
LoadResultCachesEmpty(c, d, file_name, width, height) ==
  LET path == AnnotationPath(file_name)
      empty == AnnotationRecord(file_name, width, height, <<>>, <<>>, <<>>)
  IN IF file_name \in DOMAIN c
     THEN [record |-> c[file_name], cache |-> c]
     ELSE IF path \notin DOMAIN d
     THEN [record |-> empty, cache |-> Put(c, file_name, empty)]
     ELSE LET data == d[path]
              record == AnnotationRecord(Get(data, "file_name", file_name),
                                         Get(data, "width", width),
                                         Get(data, "height", height),
                                         Get(data, "points", <<>>),
                                         Get(data, "bboxes", <<>>),
                                         Get(data, "bone_lines", <<>>))
          IN [record |-> record, cache |-> Put(c, file_name, empty)]

\* load(file_name, width, height) with the annotation directory set: the
\* record returned and the cache afterwards.
LoadResult(c, d, file_name, width, height) ==
  LET path == AnnotationPath(file_name)
  IN IF file_name \in DOMAIN c
     THEN [record |-> c[file_name], cache |-> c]
     ELSE IF path \notin DOMAIN d
     THEN LET record == AnnotationRecord(file_name, width, height, <<>>, <<>>, <<>>)
          IN [record |-> record, cache |-> Put(c, file_name, record)]
     ELSE LET data == d[path]
              record == AnnotationRecord(Get(data, "file_name", file_name),
                                         Get(data, "width", width),
                                         Get(data, "height", height),
                                         Get(data, "points", <<>>),
                                         Get(data, "bboxes", <<>>),
                                         Get(data, "bone_lines", <<>>))
          IN [record |-> record, cache |-> Put(c, file_name, record)]

\* The operation just performed, and whether it raised.
Did(name) == [name |-> name, raised |-> FALSE]

Raised(name) == [name |-> name, raised |-> TRUE]

\* One method call: op is the call just made (its arguments and what it
\* returned), prev the call before it.  persisted keeps, per image file
\* name, the content last written for it: by save, or before the program
\* started.
Tick == nops < MaxOps /\ nops' = nops + 1 /\ prev' = op

\* Mutant of SetImageDirectory: the cache survives the change of directory.
SetImageDirectoryKeepsCache(path) ==
  /\ Tick
  /\ IF path # RootDir
     THEN /\ op' = [name |-> "set_image_directory", raised |-> TRUE, path |-> path]
          /\ UNCHANGED <<image_dir, cache>>
     ELSE /\ image_dir' = RootDir
          /\ cache' = cache
          /\ op' = [name |-> "set_image_directory", raised |-> FALSE, path |-> path,
                    dropped |-> cache, result |-> ScanImages(RootDir, images)]
  /\ UNCHANGED <<images, disk, dest, last, persisted>>
  /\ UNCHANGED <<window, script>>

\* set_image_directory(path): RootDir is the one directory there is, and
\* annotation_dir is image_dir / "annotations" (set on the same lines), so
\* image_dir stands for both.
SetImageDirectory(path) ==
  /\ Tick
  /\ IF path # RootDir
     THEN /\ op' = [name |-> "set_image_directory", raised |-> TRUE, path |-> path]
          /\ UNCHANGED <<image_dir, cache>>
     ELSE /\ image_dir' = RootDir
          /\ cache' = <<>>
          /\ op' = [name |-> "set_image_directory", raised |-> FALSE, path |-> path,
                    dropped |-> cache, result |-> ScanImages(RootDir, images)]
  /\ UNCHANGED <<images, disk, dest, last, persisted>>
  /\ UNCHANGED <<window, script>>

\* Mutant of Load: the annotation directory is not asked for.
LoadWithoutDirectory(file_name, width, height) ==
  /\ Tick
  /\ IF LoadRaises(cache, disk, file_name)
     THEN /\ op' = [name |-> "load", raised |-> TRUE, file_name |-> file_name]
          /\ UNCHANGED cache
     ELSE /\ cache' = LoadResult(cache, disk, file_name, width, height).cache
          /\ op' = [name |-> "load", raised |-> FALSE,
                    file_name |-> file_name, width |-> width, height |-> height,
                    hit |-> file_name \in DOMAIN cache,
                    result |-> LoadResult(cache, disk, file_name, width, height).record]
  /\ UNCHANGED <<image_dir, images, disk, dest, last, persisted>>
  /\ UNCHANGED <<window, script>>

\* load(file_name, width, height)
Load(file_name, width, height) ==
  /\ Tick
  /\ IF image_dir = NoDir \/ LoadRaises(cache, disk, file_name)
     THEN /\ op' = [name |-> "load", raised |-> TRUE, file_name |-> file_name]
          /\ UNCHANGED cache
     ELSE /\ cache' = LoadResult(cache, disk, file_name, width, height).cache
          /\ op' = [name |-> "load", raised |-> FALSE,
                    file_name |-> file_name, width |-> width, height |-> height,
                    hit |-> file_name \in DOMAIN cache,
                    result |-> LoadResult(cache, disk, file_name, width, height).record]
  /\ UNCHANGED <<image_dir, images, disk, dest, last, persisted>>
  /\ UNCHANGED <<window, script>>

\* Mutant of Save: the record is cached but its file is not written.
SaveCacheOnly(record) ==
  /\ Tick
  /\ IF image_dir = NoDir
     THEN /\ op' = Raised("save")
          /\ UNCHANGED <<disk, cache, persisted>>
     ELSE /\ disk' = disk
          /\ cache' = Put(cache, record.file_name, record)
          /\ persisted' = Put(persisted, record.file_name, record)
          /\ op' = [name |-> "save", raised |-> FALSE, record |-> record]
  /\ UNCHANGED <<image_dir, images, dest, last>>
  /\ UNCHANGED <<window, script>>

\* save(record): json.dump(asdict(record)) keeps every field of a record of
\* whole numbers, strings and lists as it is.
Save(record) ==
  /\ Tick
  /\ IF image_dir = NoDir
     THEN /\ op' = Raised("save")
          /\ UNCHANGED <<disk, cache, persisted>>
     ELSE /\ disk' = Put(disk, AnnotationPath(record.file_name), record)
          /\ cache' = Put(cache, record.file_name, record)
          /\ persisted' = Put(persisted, record.file_name, record)
          /\ op' = [name |-> "save", raised |-> FALSE, record |-> record]
  /\ UNCHANGED <<image_dir, images, dest, last>>
  /\ UNCHANGED <<window, script>>

\* sorted(annotation_dir.glob("*.json")) without points.json, as stems.
JsonStems == SelectSeq(<<"a", "b">>, LAMBDA st : st \in DOMAIN disk)

\* images.sort(key=lambda rec: rec.file_name.lower()): a stable sort.
SortByFileName(records) ==
  Flatten([k \in 1..Len(SortedNames) |->
             SelectSeq(records, LAMBDA r : r.file_name = SortedNames[k])])

\* _load_all_records with every annotation file decodable.
LoadAllRecords ==
  SortByFileName(
    [k \in 1..Len(JsonStems) |->
       LET data == disk[JsonStems[k]]
       IN AnnotationRecord(Get(data, "file_name", JsonStems[k]),
                           Get(data, "width", 0), Get(data, "height", 0),
                           Get(data, "points", <<>>), Get(data, "bboxes", <<>>),
                           Get(data, "bone_lines", <<>>))])

\* export_all(): writes annotations/points.json.
ExportAll ==
  /\ Tick
  /\ IF \/ image_dir = NoDir
        \/ \E k \in DOMAIN JsonStems : IsCorrupt(disk[JsonStems[k]])
     THEN /\ op' = Raised("export_all")
          /\ UNCHANGED disk
     ELSE /\ disk' = Put(disk, "points", [images |-> LoadAllRecords])
          /\ op' = Did("export_all")
  /\ UNCHANGED <<image_dir, images, cache, dest, last, persisted>>
  /\ UNCHANGED <<window, script>>

\* ------------------------------------------------------------------------
\* export_datasets
\* ------------------------------------------------------------------------
\* Mutant of HasRequired: the CREST requirement is lost.
HasRequiredNoCrest(record) ==
  /\ Len(record.bboxes) > 0
  /\ \E i \in DOMAIN record.points : Get(record.points[i], "class", "") = "CEJ"

\* has_bbox and has_crest and has_cej
HasRequired(record) ==
  /\ Len(record.bboxes) > 0
  /\ \E i \in DOMAIN record.points : Get(record.points[i], "class", "") = "CREST"
  /\ \E i \in DOMAIN record.points : Get(record.points[i], "class", "") = "CEJ"

\* Mutant of ClassifyFile: a file whose image or annotation fails to load
\* is dropped instead of being held out.
ClassifyFileDropsFailed(st, fname) ==
  IF AnnotationPath(fname) \in DOMAIN disk
  THEN IF \/ fname \notin DOMAIN st.cache /\ images[fname] # "ok"
          \/ LoadRaises(st.cache, disk, fname)
       THEN st
       ELSE LET ld == LoadResult(st.cache, disk, fname, ImgW, ImgH)
            IN IF HasRequired(ld.record)
               THEN [st EXCEPT !.cache = ld.cache,
                               !.annotated = Append(@, [from |-> fname,
                                                        record |-> ld.record])]
               ELSE [st EXCEPT !.cache = ld.cache,
                               !.unannotated = Append(@, fname)]
  ELSE [st EXCEPT !.unannotated = Append(@, fname)]

\* One iteration of the classification loop ("1. Identify Annotated vs
\* Unannotated").  An item of annotated_records is a reference to a record
\* object: the scanned file it was obtained for, and the record.
ClassifyFile(st, fname) ==
  IF AnnotationPath(fname) \in DOMAIN disk
  THEN IF \/ fname \notin DOMAIN st.cache /\ images[fname] # "ok"
          \/ LoadRaises(st.cache, disk, fname)
       THEN \* Image.open or load raises; the except clause
            [st EXCEPT !.unannotated = Append(@, fname)]
       ELSE LET ld == LoadResult(st.cache, disk, fname, ImgW, ImgH)
            IN IF HasRequired(ld.record)
               THEN [st EXCEPT !.cache = ld.cache,
                               !.annotated = Append(@, [from |-> fname,
                                                        record |-> ld.record])]
               ELSE [st EXCEPT !.cache = ld.cache,
                               !.unannotated = Append(@, fname)]
  ELSE [st EXCEPT !.unannotated = Append(@, fname)]

RECURSIVE ClassifyFiles(_, _)
ClassifyFiles(st, files) ==
  IF files = <<>> THEN st
  ELSE ClassifyFiles(ClassifyFile(st, Head(files)), Tail(files))

\* The order random.seed(seed); random.shuffle(xs) gives to n items
\* (CPython's generator): item number p[i] of xs moves to place i.
ShufflePerm(seed, n) ==
  CASE seed = 42 -> << <<>>, <<1>>, <<2, 1>>, <<2, 1, 3>>, <<3, 2, 4, 1>> >>[n + 1]
    [] seed = 7 -> << <<>>, <<1>>, <<1, 2>>, <<3, 1, 2>>, <<4, 2, 1, 3>> >>[n + 1]

Shuffle(xs, seed) ==
  LET p == ShufflePerm(seed, Len(xs))
  IN [i \in 1..Len(xs) |-> xs[p[i]]]

\* Mutant of SplitIdx: the cut is taken at the validation fraction.
SplitIdxAtVal(n, vnum) == TruncDiv(n * vnum, VDen)

\* int(len(annotated_records) * (1 - val_split)), val_split = vnum / VDen
SplitIdx(n, vnum) == TruncDiv(n * (VDen - vnum), VDen)

\* The destination directory before anything is written to it.
EmptyDest ==
  [images |-> [train |-> {}, val |-> {}],
   labels |-> [train |-> <<>>, val |-> <<>>],
   rois |-> <<>>,
   stage2_train |-> <<>>, stage2_val |-> <<>>,
   names |-> <<>>,
   test_images |-> {}]

\* The scanned files / the records behind a list of references.
Origins(refs) == [i \in DOMAIN refs |-> refs[i].from]

RecordsOf(refs) == [i \in DOMAIN refs |-> refs[i].record]

\* Mutant of ExportBboxRecord: the label file is written before the source
\* image is looked for.
ExportBboxRecordLabelFirst(d, record, split_name) ==
  IF images[record.file_name] = "absent"
  THEN [d EXCEPT !.labels[split_name] = Put(@, Stem(record.file_name), LabelLines(record))]
  ELSE [d EXCEPT !.images[split_name] = @ \cup {record.file_name},
                 !.labels[split_name] = Put(@, Stem(record.file_name), LabelLines(record))]

\* export_bbox, one record.
ExportBboxRecord(d, record, split_name) ==
  IF images[record.file_name] = "absent" THEN d
  ELSE [d EXCEPT !.images[split_name] = @ \cup {record.file_name},
                 !.labels[split_name] = Put(@, Stem(record.file_name), LabelLines(record))]

RECURSIVE ExportBbox(_, _, _)
ExportBbox(d, records, split_name) ==
  IF records = <<>> THEN d
  ELSE ExportBbox(ExportBboxRecord(d, Head(records), split_name), Tail(records), split_name)

\* Mutant of RoiImage: the top edge is taken half a width above the centre.
RoiImageTopFromWidth(record, i) ==
  LET g == BoxGeometry(record.bboxes[i + 1])
  IN [source |-> record.file_name, rotation |-> g.rotation,
      center2 |-> <<g.cx2, g.cy2>>,
      left |-> 5 * g.cx2 - 5 * g.w, top |-> 5 * g.cy2 - 5 * g.w,
      right |-> 5 * g.cx2 + 5 * g.w, bottom |-> 5 * g.cy2 + 5 * g.h]

\* The crop saved as ROI number i of a record: the source image, the
\* rotation applied to it and the crop rectangle, in tenths of a pixel.
RoiImage(record, i) ==
  LET g == BoxGeometry(record.bboxes[i + 1])
  IN [source |-> record.file_name, rotation |-> g.rotation,
      center2 |-> <<g.cx2, g.cy2>>,
      left |-> 5 * g.cx2 - 5 * g.w, top |-> 5 * g.cy2 - 5 * g.h,
      right |-> 5 * g.cx2 + 5 * g.w, bottom |-> 5 * g.cy2 + 5 * g.h]

RECURSIVE SaveRois(_, _, _)
SaveRois(rois, record, i) ==
  IF i >= BoxesDone(record.bboxes, 0) THEN rois
  ELSE SaveRois(Put(rois, RoiFileName(record.file_name, i), RoiImage(record, i)),
                record, i + 1)

\* export_landmark, one record: st is (ROI files, dataset_entries).
ExportLandmarkRecord(st, record) ==
  IF images[record.file_name] = "absent" THEN st
  ELSE IF Len(record.bboxes) = 0 THEN st
  ELSE IF images[record.file_name] # "ok" THEN st  \* Image.open raises
  ELSE [rois |-> SaveRois(st.rois, record, 0),
        entries |-> st.entries \o RoiEntries(record)]

RECURSIVE ExportLandmark(_, _)
ExportLandmark(st, records) ==
  IF records = <<>> THEN st
  ELSE ExportLandmark(ExportLandmarkRecord(st, Head(records)), Tail(records))

\* "3. Export Test Images"
RECURSIVE ExportTestImages(_, _)
ExportTestImages(test, files) ==
  IF files = <<>> THEN test
  ELSE ExportTestImages(IF images[Head(files)] # "absent"
                        THEN test \cup {Head(files)} ELSE test, Tail(files))

\* names: of data.yaml, as index -> class name.
YamlNames ==
  LET labeled_classes == SelectSeq(BBOX_CLASSES, LAMBDA cls : cls # "Unlabeled")
  IN [i \in 0..(Len(labeled_classes) - 1) |-> labeled_classes[i + 1]]

\* The locals of export_datasets before it has ever run.
NoExport ==
  [all_files |-> <<>>, annotated |-> <<>>, unannotated |-> <<>>,
   train |-> <<>>, val |-> <<>>,
   split_idx |-> 0, val_split |-> 0, seed |-> 0,
   loaded |-> {}, fresh |-> FALSE, repeat |-> FALSE, loaded_before |-> {}]

\* export_datasets(destination, val_split, seed).  last keeps the locals of
\* the call, the lists of records as the scanned files they were obtained
\* for (annotated in the order of classification, train and val as cut from
\* the shuffled list; the records themselves are the cache entries of these
\* files), and: loaded, the files whose record the call put in the cache;
\* fresh, that the destination was empty when it started; repeat, that the
\* previous operation was an export with the same arguments, which had put
\* the records of loaded_before in the cache.
ExportDatasets(vnum, seed) ==
  /\ Tick
  /\ IF image_dir = NoDir
     THEN /\ op' = Raised("export_datasets")
          /\ UNCHANGED <<cache, dest, last>>
     ELSE \* The steps of the call in the order of the code, each value
          \* bound once: classification, shuffle, the two slices, the two
          \* export_bbox calls, the two export_landmark calls.
          \E cl \in {ClassifyFiles([cache |-> cache, annotated |-> <<>>,
                                   unannotated |-> <<>>],
                                  ScanImages(image_dir, images))} :
          \E shuffled \in {Shuffle(cl.annotated, seed)} :
          \E train_records \in
               {PySliceTo(shuffled, SplitIdx(Len(shuffled), vnum))} :
          \E val_records \in
               {PySliceFrom(shuffled, SplitIdx(Len(shuffled), vnum))} :
          \E d2 \in {ExportBbox(ExportBbox(dest, RecordsOf(train_records), "train"),
                                RecordsOf(val_records), "val")} :
          \E l1 \in {ExportLandmark([rois |-> d2.rois, entries |-> <<>>],
                                   RecordsOf(train_records))} :
          \E l2 \in {ExportLandmark([rois |-> l1.rois, entries |-> <<>>],
                                   RecordsOf(val_records))} :
          LET all_files == ScanImages(image_dir, images)
              split_idx == SplitIdx(Len(shuffled), vnum)
              repeat == /\ op = Did("export_datasets")
                        /\ last.seed = seed /\ last.val_split = vnum
          IN /\ cache' = cl.cache
             /\ dest' = [d2 EXCEPT !.rois = l2.rois,
                                   !.stage2_train = l1.entries,
                                   !.stage2_val = l2.entries,
                                   !.names = YamlNames,
                                   !.test_images = ExportTestImages(@, cl.unannotated)]
             /\ last' = [all_files |-> all_files,
                         annotated |-> Origins(cl.annotated),
                         unannotated |-> cl.unannotated,
                         train |-> Origins(train_records),
                         val |-> Origins(val_records),
                         split_idx |-> split_idx, val_split |-> vnum, seed |-> seed,
                         loaded |-> DOMAIN cl.cache \ DOMAIN cache,
                         fresh |-> (dest = EmptyDest),
                         repeat |-> repeat,
                         loaded_before |-> IF repeat THEN last.loaded ELSE {}]
             /\ op' = Did("export_datasets")
  /\ UNCHANGED <<image_dir, images, disk, persisted>>
  /\ UNCHANGED <<window, script>>

\* ------------------------------------------------------------------------
\* The main window and its canvas
\* ------------------------------------------------------------------------
\* An Optional[...] value: None, or the value it holds.
None == <<>>

Some(v) == <<v>>

ValueOf(o) == o[1]

\* The canvas without a pixmap.
NoImage == "NoImage"

Pop(f, k) == [x \in DOMAIN f \ {k} |-> f[x]]

\* list.pop(i), i from 0.
PopAt(s, i) == [k \in 1..(Len(s) - 1) |-> IF k <= i THEN s[k] ELSE s[k + 1]]

Clamp(lo, v, hi) == Min(Max(lo, v), hi)

LANDMARK_CLASSES == {"CEJ", "CREST", "APEX"}

\* str(label).upper() on the class names the annotations carry.
Upper(label) ==
  CASE label = "cej" -> "CEJ"
    [] label = "crest" -> "CREST"
    [] label = "apex" -> "APEX"
    [] OTHER -> label

normalize_class(label) == IF Upper(label) \in LANDMARK_CLASSES THEN Upper(label) ELSE "CEJ"

\* LandmarkPointItem.DEFAULT_RADIUS
DEFAULT_RADIUS == 3

\* _clamp_to_image, one coordinate: the image rectangle is null until an
\* image is loaded; the pixmap of every image has the size ImgW x ImgH.
ClampToImage(c, v, hi) == IF c.image = NoImage THEN v ELSE Clamp(0, v, hi)

\* _select_point(item): item is None or the id of a point.  Selecting a
\* point deselects the selected box; the selected bone line is left alone.
SelectPoint(c, item) ==
  IF item # None
  THEN [c EXCEPT !.selected_bbox_id = None, !.selected_point_id = item]
  ELSE [c EXCEPT !.selected_point_id = None]

\* _select_bbox(item)
SelectBbox(c, item) ==
  IF item # None
  THEN [c EXCEPT !.selected_point_id = None, !.selected_bbox_id = item]
  ELSE [c EXCEPT !.selected_bbox_id = None]

\* _select_bone_line(item)
SelectBoneLine(c, item) ==
  IF item # None
  THEN [c EXCEPT !.selected_point_id = None, !.selected_bbox_id = None,
                 !.selected_bone_line_id = item]
  ELSE [c EXCEPT !.selected_bone_line_id = None]

\* deselect_all
DeselectAll(c) == SelectBbox(SelectPoint(c, None), None)

\* _create_point: the entry of _points, clamped to the image rectangle, is
\* added under a new id and the point is selected.  The ids are uuid4 values;
\* the model numbers them, from 0 again when the points are cleared, which
\* also clears the selected id.
CreatePoint(c, label, x, y, radius) ==
  SelectPoint(
    [c EXCEPT !.points = Append(@, [x |-> ClampToImage(c, x, ImgW),
                                    y |-> ClampToImage(c, y, ImgH),
                                    class |-> normalize_class(label),
                                    radius |-> radius]),
              !.point_ids = Append(@, c.next_point_id),
              !.next_point_id = @ + 1],
    Some(c.next_point_id))

\* _clear_points
ClearPoints(c) ==
  [c EXCEPT !.points = <<>>, !.point_ids = <<>>, !.next_point_id = 0,
            !.selected_point_id = None]

\* _clear_bboxes
ClearBboxes(c) ==
  [c EXCEPT !.bboxes = <<>>, !.next_bbox_id = 0, !.selected_bbox_id = None]

\* _clear_bone_lines
ClearBoneLines(c) ==
  [c EXCEPT !.bone_lines = <<>>, !.bone_line_ids = <<>>, !.next_line_id = 0,
            !.selected_bone_line_id = None]

RECURSIVE CreatePoints(_, _)
CreatePoints(c, points) ==
  IF points = <<>> THEN c
  ELSE CreatePoints(CreatePoint(c, Get(Head(points), "class", "CEJ"),
                                Get(Head(points), "x", 0), Get(Head(points), "y", 0),
                                Get(Head(points), "radius", DEFAULT_RADIUS)),
                    Tail(points))

\* set_points: _points in insertion order.
SetPoints(c, points) == CreatePoints(ClearPoints(c), points)

\* serialize_points: round(.., 3) keeps whole coordinates as they are.
SerializePoints(c) ==
  [i \in DOMAIN c.points |->
     [x |-> c.points[i].x, y |-> c.points[i].y,
      class |-> c.points[i].class, radius |-> c.points[i].radius]]

\* set_bboxes, one box: the entry _create_bbox stores for it under id.  The
\* centre of a legacy box is (xmin + xmax) / 2; the legacy boxes of the
\* model have even sums, so the centre is a whole number.
CreateBbox(bbox, id) ==
  IF "cx" \in DOMAIN bbox
  THEN [id |-> id, cx |-> bbox.cx, cy |-> bbox.cy,
        width |-> bbox.width, height |-> bbox.height,
        rotation |-> Get(bbox, "rotation", 0),
        label |-> Get(bbox, "label", BBOX_CLASSES[1])]
  ELSE [id |-> id,
        cx |-> (Get(bbox, "xmin", 0) + Get(bbox, "xmax", 0)) \div 2,
        cy |-> (Get(bbox, "ymin", 0) + Get(bbox, "ymax", 0)) \div 2,
        width |-> Get(bbox, "xmax", 0) - Get(bbox, "xmin", 0),
        height |-> Get(bbox, "ymax", 0) - Get(bbox, "ymin", 0),
        rotation |-> Get(bbox, "rotation", 0),
        label |-> Get(bbox, "label", BBOX_CLASSES[1])]

\* set_bboxes: _bboxes in insertion order, ids from 0; a box is not selected
\* when it is created.
SetBboxes(c, bboxes) ==
  [ClearBboxes(c) EXCEPT !.bboxes = [i \in DOMAIN bboxes |-> CreateBbox(bboxes[i], i - 1)],
                         !.next_bbox_id = Len(bboxes)]

\* serialize_bboxes: round(.., 1) keeps whole values as they are.
SerializeBboxes(c) ==
  [i \in DOMAIN c.bboxes |->
     [id |-> c.bboxes[i].id, cx |-> c.bboxes[i].cx, cy |-> c.bboxes[i].cy,
      width |-> c.bboxes[i].width, height |-> c.bboxes[i].height,
      rotation |-> c.bboxes[i].rotation, label |-> Get(c.bboxes[i], "label", BBOX_CLASSES[1])]]

\* set_bone_lines: lines without points are left out; a line is not selected
\* when it is created.
SetBoneLines(c, bone_lines) ==
  LET lines == SelectSeq(bone_lines, LAMBDA line : line # <<>>)
  IN [ClearBoneLines(c) EXCEPT !.bone_lines = lines,
                               !.bone_line_ids = [i \in DOMAIN lines |-> i - 1],
                               !.next_line_id = Len(lines)]

\* serialize_bone_lines
SerializeBoneLines(c) == c.bone_lines

\* ImageCanvas.__init__
EmptyCanvas ==
  [image |-> NoImage, points |-> <<>>, bboxes |-> <<>>, bone_lines |-> <<>>,
   next_bbox_id |-> 0,
   point_ids |-> <<>>, next_point_id |-> 0,
   bone_line_ids |-> <<>>, next_line_id |-> 0,
   selected_point_id |-> None, selected_bbox_id |-> None,
   selected_bone_line_id |-> None,
   mode |-> "LANDMARK"]

\* ImageCanvas.clear: the pixmap, the points and the boxes go, the bone
\* lines stay.
CanvasClear(c) == [ClearBboxes(ClearPoints(c)) EXCEPT !.image = NoImage]

\* ImageCanvas.load_image of a file that decodes: the same, with the new
\* pixmap.
CanvasLoadImage(c, file_name) == [ClearBboxes(ClearPoints(c)) EXCEPT !.image = file_name]

\* The fields of the window, of its canvas and of its annotation manager,
\* and the directory, that the handlers of the window read and write.
\* edited tells that the user has changed the annotations on the canvas
\* since an image was last displayed; wrote, the annotation file the handler
\* has written.
Here ==
  [image_files |-> image_files, current_index |-> current_index,
   current_dimensions |-> current_dimensions,
   pending_points |-> pending_points, pending_bboxes |-> pending_bboxes,
   pending_bone_lines |-> pending_bone_lines,
   autosave_timer |-> autosave_timer, canvas |-> canvas, running |-> running,
   edited |-> edited, wrote |-> None,
   image_dir |-> image_dir, images |-> images, disk |-> disk, cache |-> cache,
   persisted |-> persisted]

Becomes(w) ==
  /\ image_files' = w.image_files
  /\ current_index' = w.current_index
  /\ current_dimensions' = w.current_dimensions
  /\ pending_points' = w.pending_points
  /\ pending_bboxes' = w.pending_bboxes
  /\ pending_bone_lines' = w.pending_bone_lines
  /\ autosave_timer' = w.autosave_timer
  /\ canvas' = w.canvas
  /\ running' = w.running
  /\ edited' = w.edited
  /\ image_dir' = w.image_dir
  /\ images' = w.images
  /\ disk' = w.disk
  /\ cache' = w.cache
  /\ persisted' = w.persisted

\* An exception that leaves a slot: PyQt5 from 5.5 on aborts the
\* application, earlier versions print the exception and go on.
Unhandled(w, abort) == IF abort THEN [w EXCEPT !.running = FALSE] ELSE w

\* _emit_state_changed as the window receives it: _on_points_updated,
\* _on_bboxes_updated, _on_bone_lines_updated, each with _trigger_autosave.
EmitStateChanged(w) ==
  IF w.current_index = -1 THEN w
  ELSE [w EXCEPT !.pending_points = Some(SerializePoints(w.canvas)),
                 !.pending_bboxes = Some(SerializeBboxes(w.canvas)),
                 !.pending_bone_lines = Some(SerializeBoneLines(w.canvas)),
                 !.autosave_timer = TRUE]

\* _load_image_at_index(index).  canvas.load_image raises ValueError for a
\* file that does not decode, which is caught; annotation_manager.load
\* raises for an annotation file that does not decode, which is not.  The
\* pixmap of the file has the size ImgW x ImgH.
LoadImageAtIndex(w, index, abort) ==
  IF ~(0 <= index /\ index < Len(w.image_files)) THEN w
  ELSE LET file_name == w.image_files[index + 1]
       IN IF w.images[file_name] # "ok" THEN w
          ELSE LET c1 == CanvasLoadImage(w.canvas, file_name)
               IN IF LoadRaises(w.cache, w.disk, file_name)
                  THEN Unhandled([w EXCEPT !.canvas = c1], abort)
                  ELSE LET ld == LoadResult(w.cache, w.disk, file_name, ImgW, ImgH)
                           record == ld.record
                           \* lines 188-190
                           w1 == [w EXCEPT !.cache = ld.cache,
                                           !.current_dimensions = <<record.width, record.height>>,
                                           !.current_index = index,
                                           !.autosave_timer = FALSE]
                           \* lines 191-193: set_bone_lines ends with
                           \* _emit_state_changed
                           w2 == EmitStateChanged(
                                   [w1 EXCEPT !.canvas =
                                      SetBoneLines(
                                        SetBboxes(SetPoints(c1, record.points), record.bboxes),
                                        record.bone_lines)])
                       IN \* lines 196-198
                          [w2 EXCEPT !.pending_points = Some(record.points),
                                     !.pending_bboxes = Some(record.bboxes),
                                     !.pending_bone_lines = Some(record.bone_lines),
                                     !.edited = FALSE]

\* _perform_autosave
PerformAutosave(w, abort) ==
  IF w.current_index = -1 \/ w.pending_points = None THEN w
  ELSE IF w.current_index >= Len(w.image_files) THEN Unhandled(w, abort)  \* IndexError
  ELSE LET file_name == w.image_files[w.current_index + 1]
           record == AnnotationRecord(file_name, w.current_dimensions[1],
                                      w.current_dimensions[2], ValueOf(w.pending_points),
                                      IF w.pending_bboxes # None
                                      THEN ValueOf(w.pending_bboxes) ELSE <<>>,
                                      IF w.pending_bone_lines # None
                                      THEN ValueOf(w.pending_bone_lines) ELSE <<>>)
       IN \* annotation_manager.save(record)
          [w EXCEPT !.disk = Put(@, AnnotationPath(file_name), record),
                    !.cache = Put(@, file_name, record),
                    !.persisted = Put(@, file_name, record),
                    !.wrote = Some(file_name)]

\* One event of the window's event loop.
Event(name, w) ==
  /\ nops < MaxEvents
  /\ nops' = nops + 1
  /\ prev' = op
  /\ op' = [name |-> name, raised |-> FALSE, wrote |-> w.wrote,
            explicit |-> (name = "save_current_image")]
  /\ Becomes(w)
  /\ UNCHANGED <<dest, last, script>>

\* open_folder with the directory the dialog returns: _load_directory(path).
OpenFolder(path, abort) ==
  /\ running
  /\ Event("open_folder",
           IF path # RootDir THEN Here  \* FileNotFoundError, caught
           ELSE LET files == ScanImages(RootDir, images)
                    w1 == [Here EXCEPT !.image_dir = RootDir, !.cache = <<>>,
                                       !.image_files = files]
                IN IF files = <<>>
                   THEN [w1 EXCEPT !.current_index = -1, !.canvas = CanvasClear(@)]
                   ELSE LoadImageAtIndex([w1 EXCEPT !.autosave_timer = FALSE], 0, abort))

\* show_previous_image
ShowPreviousImage(abort) ==
  /\ running
  /\ Event("show_previous_image",
           IF current_index > 0 THEN LoadImageAtIndex(Here, current_index - 1, abort)
           ELSE Here)

\* show_next_image
ShowNextImage(abort) ==
  /\ running
  /\ Event("show_next_image",
           IF current_index + 1 < Len(image_files)
           THEN LoadImageAtIndex(Here, current_index + 1, abort)
           ELSE Here)

\* jump_to_image(index)
JumpToImage(index, abort) ==
  /\ running
  /\ Event("jump_to_image",
           IF index = current_index THEN Here
           ELSE IF 0 <= index /\ index < Len(image_files)
           THEN LoadImageAtIndex(Here, index, abort)
           ELSE Here)

\* The user places a landmark: add_point_at, _create_point with emit.
AddPoint(x, y, label) ==
  /\ running
  /\ Event("add_point_at",
           IF canvas.image = NoImage THEN Here
           ELSE EmitStateChanged(
                  [Here EXCEPT !.canvas = CreatePoint(@, label, x, y, DEFAULT_RADIUS),
                               !.edited = TRUE]))

\* The single-shot autosave timer runs out, 400 ms after it was started.
AutosaveTimeout(abort) ==
  /\ running
  /\ autosave_timer
  /\ Event("timeout", PerformAutosave([Here EXCEPT !.autosave_timer = FALSE], abort))

\* save_current_image
SaveCurrentImage(abort) ==
  /\ running
  /\ Event("save_current_image",
           PerformAutosave([Here EXCEPT !.autosave_timer = FALSE], abort))

\* flag_current_image
FlagCurrentImage(abort) ==
  /\ running
  /\ Event("flag_current_image",
           IF current_index = -1 \/ image_dir = NoDir THEN Here
           ELSE IF current_index >= Len(image_files) THEN Unhandled(Here, abort)  \* IndexError
           ELSE LET file_name == image_files[current_index + 1]
                IN IF images[file_name] = "absent" THEN Here
                   ELSE LET w1 == [Here EXCEPT
                                     !.images[file_name] = "absent",
                                     !.disk = Pop(@, AnnotationPath(file_name)),
                                     !.persisted = Pop(@, file_name),
                                     !.cache = Pop(@, file_name),
                                     !.image_files = PopAt(@, current_index)]
                        IN IF w1.image_files = <<>>
                           THEN [w1 EXCEPT !.current_index = -1, !.canvas = CanvasClear(@)]
                           ELSE LoadImageAtIndex(w1, Min(current_index, Len(w1.image_files) - 1),
                                                 abort))

\* The autosave timer runs out after the last of the user's events: the
\* same slot as AutosaveTimeout, not counted as an event.
LateTimeout(abort) ==
  /\ running
  /\ autosave_timer
  /\ nops = MaxEvents
  /\ \E w \in {PerformAutosave([Here EXCEPT !.autosave_timer = FALSE], abort)} :
       /\ op' = [name |-> "timeout", raised |-> FALSE, wrote |-> w.wrote,
                 explicit |-> FALSE]
       /\ Becomes(w)
  /\ prev' = op
  /\ UNCHANGED <<nops, dest, last, script>>

\* _on_point_deleted(point_id)
OnPointDeleted(c, point_id) ==
  LET keep == {k \in DOMAIN c.point_ids : c.point_ids[k] # point_id}
      c1 == [c EXCEPT !.points = SelectSeq([k \in DOMAIN @ |-> [at |-> k, v |-> @[k]]],
                                           LAMBDA e : e.at \in keep),
                      !.point_ids = SelectSeq(@, LAMBDA id : id # point_id)]
      c2 == [c1 EXCEPT !.points = [k \in DOMAIN @ |-> @[k].v]]
  IN IF c.selected_point_id = Some(point_id)
     THEN [c2 EXCEPT !.selected_point_id = None] ELSE c2

\* _on_bbox_deleted(bbox_id)
OnBboxDeleted(c, bbox_id) ==
  LET c1 == [c EXCEPT !.bboxes = SelectSeq(@, LAMBDA b : b.id # bbox_id)]
  IN IF c.selected_bbox_id = Some(bbox_id)
     THEN [c1 EXCEPT !.selected_bbox_id = None] ELSE c1

\* delete_selected_item
DeleteSelectedItem(c) ==
  IF c.selected_point_id # None THEN OnPointDeleted(c, ValueOf(c.selected_point_id))
  ELSE IF c.selected_bbox_id # None THEN OnBboxDeleted(c, ValueOf(c.selected_bbox_id))
  ELSE c

\* The annotations the canvas is hydrated with.
CanvasPointLists ==
  {<<>>,
   <<Pt(500, 400, "CEJ"), [x |-> 10, y |-> 20, class |-> "CREST", radius |-> 5]>>,
   <<Pt(1200, 400, "APEX"), Pt(0, 0, "CEJ")>>,
   <<Pt(3, 4, "crest"), [x |-> 7, y |-> 8]>>}

CanvasBoxLists ==
  {<<>>, <<BTooth, BLegacy>>, <<BLegacyRot, BEdge>>, <<BNoLabel, BUnknown>>}

CanvasLineLists ==
  {<<>>, <<<<[x |-> 1, y |-> 2], [x |-> 3, y |-> 4]>>, <<>>, <<[x |-> 5, y |-> 6]>>>>}

CanvasMode == {"LANDMARK", "BBOX", "BONE"}

\* One call of a method of the canvas, or one event it handles, with the
\* canvas used on its own.
CanvasCall(name, args, c) ==
  /\ nops < MaxCalls
  /\ nops' = nops + 1
  /\ prev' = op
  /\ op' = [name |-> name, raised |-> FALSE, args |-> args]
  /\ canvas' = c
  /\ UNCHANGED <<image_dir, images, disk, cache, dest, last, persisted>>
  /\ UNCHANGED <<image_files, current_index, current_dimensions,
                 pending_points, pending_bboxes, pending_bone_lines,
                 autosave_timer, running, edited, script>>

CallLoadImage(file_name) ==
  /\ images[file_name] = "ok"
  /\ CanvasCall("load_image", <<file_name>>, CanvasLoadImage(canvas, file_name))

CallClear ==
  /\ canvas # EmptyCanvas
  /\ CanvasCall("clear", <<>>, CanvasClear(canvas))

CallSetPoints(points) ==
  /\ TRUE
  /\ CanvasCall("set_points", points, SetPoints(canvas, points))

CallSetBboxes(bboxes) ==
  /\ TRUE
  /\ CanvasCall("set_bboxes", bboxes, SetBboxes(canvas, bboxes))

CallSetBoneLines(bone_lines) ==
  /\ TRUE
  /\ CanvasCall("set_bone_lines", bone_lines, SetBoneLines(canvas, bone_lines))

\* add_point_at
CallAddPointAt(x, y, label) ==
  /\ canvas.image # NoImage
  /\ CanvasCall("add_point_at", <<>>, CreatePoint(canvas, label, x, y, DEFAULT_RADIUS))

\* set_mode(mode) ends with clear_selection.
CallSetMode(mode) ==
  /\ mode # canvas.mode
  /\ CanvasCall("set_mode", <<mode>>, DeselectAll([canvas EXCEPT !.mode = mode]))

\* mousePressEvent with the left button on a point.
PressOnPoint(k) ==
  /\ k \in DOMAIN canvas.point_ids
  /\ CanvasCall("press_point", <<>>, SelectPoint(canvas, Some(canvas.point_ids[k])))

\* mousePressEvent with the left button on a box, in BBOX mode.
PressOnBbox(k) ==
  /\ canvas.mode = "BBOX"
  /\ k \in DOMAIN canvas.bboxes
  /\ CanvasCall("press_bbox", <<>>, SelectBbox(canvas, Some(canvas.bboxes[k].id)))

\* A bone line reports that it was selected: _on_bone_line_selected.  Bone
\* lines take mouse buttons in BONE mode only.
OnBoneLineSelected(k) ==
  /\ canvas.mode = "BONE"
  /\ k \in DOMAIN canvas.bone_line_ids
  /\ CanvasCall("bone_line_selected", <<>>,
                SelectBoneLine(canvas, Some(canvas.bone_line_ids[k])))

\* mousePressEvent with the left button on no item: deselect_all.
CallDeselectAll ==
  /\ TRUE
  /\ CanvasCall("deselect_all", <<>>, DeselectAll(canvas))

\* The Escape shortcut: clear_selection.
CallClearSelection ==
  /\ TRUE
  /\ CanvasCall("clear_selection", <<>>, DeselectAll(canvas))

\* The Delete and Backspace shortcuts: delete_selected_item.
CallDeleteSelectedItem ==
  /\ canvas.selected_point_id # None \/ canvas.selected_bbox_id # None
  /\ CanvasCall("delete_selected_item", <<>>, DeleteSelectedItem(canvas))

\* AnnotationMainWindow.__init__
WindowInit ==
  /\ image_files = <<>>
  /\ current_index = -1
  /\ current_dimensions = <<0, 0>>
  /\ pending_points = None
  /\ pending_bboxes = None
  /\ pending_bone_lines = None
  /\ autosave_timer = FALSE
  /\ canvas = EmptyCanvas
  /\ running = TRUE
  /\ edited = FALSE

\* ------------------------------------------------------------------------
\* Scripts/convert_dataset.py: one source file converted to an annotation
\* file.  A source point is a list of numbers, kept when it has two.
\* ------------------------------------------------------------------------
NotRun == [pc |-> "not run"]

\* "CEJ_Points", "Apex_Points" of the key points file.
SourceCej == {<<>>, <<<<10, 10>>>>, <<<<10, 10>>, <<20, 10, 1>>, <<30, 31>>>>}

SourceApex == {<<>>, <<<<11, 10>>, <<5>>>>}

\* "Bone_Lines" of the bone level file (none when the file is missing).
SourceBoneLines ==
  {<<>>,
   <<<<<<10, 10>>, <<20, 20>>, <<30, 30>>>>>>,
   <<<<<<10, 10>>, <<11, 10>>>>>>,
   <<<<<<10, 10>>, <<12, 10>>>>>>,
   <<<<<<10, 10>>>>, <<<<11, 11>>, <<30, 30>>>>>>,
   <<<<<<10, 10>>, <<30, 30>>>>, <<<<30, 31>>, <<10, 12>>>>>>,
   <<<<<<10, 10, 0>>>>, <<<<10, 10, 0>>, <<20, 20>>, <<30, 30>>>>>>,
   <<<<<<10, 10>>, <<30, 30>>>>, <<<<50, 50>>, <<30, 30>>, <<10, 10>>>>>>}

\* The source points of two numbers, as points of a class.
RECURSIVE ExtractPointsOf(_, _)
ExtractPointsOf(pts, class) ==
  IF pts = <<>> THEN <<>>
  ELSE (IF Len(Head(pts)) = 2
        THEN <<[x |-> Head(pts)[1], y |-> Head(pts)[2], class |-> class]>>
        ELSE <<>>) \o ExtractPointsOf(Tail(pts), class)

\* converted_line
RECURSIVE ConvertedLine(_)
ConvertedLine(line) ==
  IF line = <<>> THEN <<>>
  ELSE (IF Len(Head(line)) = 2
        THEN <<[x |-> Head(line)[1], y |-> Head(line)[2]]>>
        ELSE <<>>) \o ConvertedLine(Tail(line))

\* bone_lines_out: the converted lines that are not empty.
RECURSIVE ConvertedLines(_)
ConvertedLines(lines) ==
  IF lines = <<>> THEN <<>>
  ELSE (IF ConvertedLine(Head(lines)) # <<>> THEN <<ConvertedLine(Head(lines))>>
        ELSE <<>>) \o ConvertedLines(Tail(lines))

\* The tolerance of the distance check, in pixels.
TOLERANCE == 2

\* dist < 2.0, for whole coordinates: the square of the distance is below
\* the square of the tolerance.
Near(a, b) ==
  (a.x - b.x) * (a.x - b.x) + (a.y - b.y) * (a.y - b.y) < TOLERANCE * TOLERANCE

\* Mutant of CrestExists: the class of the existing point is not looked at.
CrestExistsAnyClass(points_out, pt) ==
  \E k \in DOMAIN points_out : Near(points_out[k], pt)

\* exists, after the loop over points_out.
CrestExists(points_out, pt) ==
  \E k \in DOMAIN points_out : points_out[k].class = "CREST" /\ Near(points_out[k], pt)

\* A step of the script leaves the application alone.
ScriptStep(s) ==
  /\ script' = s
  /\ UNCHANGED application

\* "Extract CEJ Points", "Extract Apex Points"
ExtractPoints ==
  /\ script.pc = "points"
  /\ ScriptStep([script EXCEPT !.pc = "bone lines",
                               !.points_out = ExtractPointsOf(script.data.CEJ_Points, "CEJ")
                                                \o ExtractPointsOf(script.data.Apex_Points, "APEX")])

\* "Extract Bone Lines"
ExtractBoneLines ==
  /\ script.pc = "bone lines"
  /\ ScriptStep([script EXCEPT !.pc = "sync",
                               !.bone_lines_out = ConvertedLines(script.data.Bone_Lines)])

\* "Sync Bone Line Endpoints to CREST points": one endpoint of one line.
SyncEndpoint ==
  /\ script.pc = "sync"
  /\ script.line <= Len(script.bone_lines_out)
  /\ LET line == script.bone_lines_out[script.line]
         pt == IF script.endpoint = 1 THEN line[1] ELSE line[Len(line)]
         next == IF script.endpoint = 1
                 THEN [script EXCEPT !.endpoint = 2]
                 ELSE [script EXCEPT !.endpoint = 1, !.line = @ + 1]
     IN ScriptStep(IF line = <<>> THEN [script EXCEPT !.line = @ + 1]
                   ELSE IF CrestExists(script.points_out, pt) THEN next
                   ELSE [next EXCEPT !.points_out =
                           Append(@, [x |-> pt.x, y |-> pt.y, class |-> "CREST"])])

\* "Save Output JSON"
SaveOutput ==
  /\ script.pc = "sync"
  /\ script.line > Len(script.bone_lines_out)
  /\ ScriptStep([script EXCEPT !.pc = "saved",
                               !.output = [points |-> script.points_out,
                                           bone_lines |-> script.bone_lines_out]])

\* ------------------------------------------------------------------------
\* The program
\* ------------------------------------------------------------------------
\* The image directory the user opens: each supported name is a decodable
\* image ("ok"), a file that does not decode ("corrupt"), or no file.
AllOk == [n \in Names |-> "ok"]

ImageDirs ==
  {AllOk, [AllOk EXCEPT !["a.jpg"] = "absent"], [AllOk EXCEPT !["b.png"] = "corrupt"],
   [AllOk EXCEPT !["a.png"] = "corrupt"]}

\* Annotation files left in the directory by an earlier session.
\* An annotation file without the width, height, points, bboxes and
\* bone_lines fields.
PartialDoc == [file_name |-> "b.png"]

InitDisks ==
  {<<>>, [b |-> AnnotationRecord("b.png", ImgW, ImgH, BodyTooth.points, BodyTooth.bboxes, <<>>)],
   [a |-> CorruptDoc, b |-> PartialDoc]}

\* The records the annotation files hold when the program starts.
InitPersisted(d) ==
  LET docs == {d[st] : st \in {x \in DOMAIN d : ~IsCorrupt(d[x])}}
  IN [f \in {doc.file_name : doc \in docs} |->
        CHOOSE doc \in docs : doc.file_name = f]

Init ==
  /\ image_dir = NoDir
  /\ images \in ImageDirs
  /\ disk \in InitDisks
  /\ cache = <<>>
  /\ dest = EmptyDest
  /\ last = NoExport
  /\ op = Did("init")
  /\ prev = Did("init")
  /\ persisted = InitPersisted(disk)
  /\ nops = 0
  /\ WindowInit
  /\ script = NotRun

\* Annotation files that were not written by this program: a.json holds a
\* box without a size.
HandEditedInit ==
  /\ image_dir = NoDir
  /\ images \in ImageDirs
  /\ disk = [a |-> RecordOf("a.png", BodyBroken), b |-> RecordOf("b.png", BodyTooth)]
  /\ cache = <<>>
  /\ dest = EmptyDest
  /\ last = NoExport
  /\ op = Did("init")
  /\ prev = Did("init")
  /\ persisted = InitPersisted(disk)
  /\ nops = 0
  /\ WindowInit
  /\ script = NotRun

Next ==
  \/ \E path \in {RootDir, "missing"} : SetImageDirectory(path)
  \/ \E n \in Names : Load(n, ImgW, ImgH)
  \/ \E r \in Records : Save(r)
  \/ ExportAll
  \/ \E vnum \in ValSplits, seed \in Seeds : ExportDatasets(vnum, seed)

Spec == Init /\ [][Next]_vars

HandEditedSpec == HandEditedInit /\ [][Next]_vars

\* The application: the annotation manager as the main window drives it.
\* The user opens a folder, moves between its images, places landmarks,
\* saves and flags; the autosave timer runs out.
WindowNext ==
  \/ \E path \in {RootDir, "missing"} : \E abort \in BOOLEAN : OpenFolder(path, abort)
  \/ \E abort \in BOOLEAN : ShowPreviousImage(abort)
  \/ \E abort \in BOOLEAN : ShowNextImage(abort)
  \/ \E index \in 0..2 : \E abort \in BOOLEAN : JumpToImage(index, abort)
  \/ AddPoint(10, 10, "CEJ")
  \/ \E abort \in BOOLEAN : AutosaveTimeout(abort)
  \/ \E abort \in BOOLEAN : SaveCurrentImage(abort)
  \/ \E abort \in BOOLEAN : FlagCurrentImage(abort)

WindowSpec == Init /\ [][WindowNext]_vars

\* The window with its timer: a started single-shot QTimer that is not
\* stopped or restarted runs out, so the timeout slot is weakly fair.
WindowTimedNext ==
  \/ WindowNext
  \/ \E abort \in BOOLEAN : LateTimeout(abort)

TimerRunsOut == \E abort \in BOOLEAN : AutosaveTimeout(abort) \/ LateTimeout(abort)

WindowTimedSpec == Init /\ [][WindowTimedNext]_vars /\ WF_vars(TimerRunsOut)

\* The canvas on its own: its setters, and the events that change what is
\* selected.
CanvasInit == Init /\ images = AllOk /\ disk = <<>>

CanvasNext ==
  \/ CallLoadImage("a.png")
  \/ CallClear
  \/ \E points \in CanvasPointLists : CallSetPoints(points)
  \/ \E bboxes \in CanvasBoxLists : CallSetBboxes(bboxes)
  \/ \E bone_lines \in CanvasLineLists : CallSetBoneLines(bone_lines)
  \/ CallAddPointAt(10, 10, "CEJ")
  \/ \E mode \in CanvasMode : CallSetMode(mode)
  \/ \E k \in 1..2 : PressOnPoint(k)
  \/ \E k \in 1..2 : PressOnBbox(k)
  \/ \E k \in 1..2 : OnBoneLineSelected(k)
  \/ CallDeselectAll
  \/ CallClearSelection
  \/ CallDeleteSelectedItem

CanvasSpec == CanvasInit /\ [][CanvasNext]_vars

\* The conversion script on one source file, the application not started.
ConvertInit ==
  /\ image_dir = NoDir
  /\ images = AllOk
  /\ disk = <<>>
  /\ cache = <<>>
  /\ dest = EmptyDest
  /\ last = NoExport
  /\ op = Did("init")
  /\ prev = Did("init")
  /\ persisted = <<>>
  /\ nops = 0
  /\ WindowInit
  /\ \E cej \in SourceCej : \E apex \in SourceApex : \E lines \in SourceBoneLines :
       script = [pc |-> "points",
                 data |-> [CEJ_Points |-> cej, Apex_Points |-> apex, Bone_Lines |-> lines],
                 points_out |-> <<>>, bone_lines_out |-> <<>>,
                 line |-> 1, endpoint |-> 1, output |-> <<>>]

ConvertNext ==
  \/ ExtractPoints
  \/ ExtractBoneLines
  \/ SyncEndpoint
  \/ SaveOutput

ConvertSpec == ConvertInit /\ [][ConvertNext]_vars

\* ========================================================================
\* Properties
\* ========================================================================
\* The last operation was an export_datasets that returned.
Exported == op = Did("export_datasets")

\* The files returned by the directory scan of the last export.
Scanned == Range(last.all_files)

\* The scanned files the last export classified trainable / held-out.
ClassedTrainable == Range(last.annotated)

ClassedHeldOut == Range(last.unannotated)

\* A record with at least one box, one CREST point and one CEJ point.
Complete(record) ==
  /\ Len(record.bboxes) >= 1
  /\ \E i \in DOMAIN record.points : record.points[i].class = "CREST"
  /\ \E i \in DOMAIN record.points : record.points[i].class = "CEJ"

\* The record the store holds for a scanned file: the cached one, else the
\* one of its annotation file.
HasRecord(f) ==
  \/ f \in DOMAIN cache
  \/ AnnotationPath(f) \in DOMAIN disk /\ ~IsCorrupt(disk[AnnotationPath(f)])

ItsRecord(f) == LoadResult(cache, disk, f, ImgW, ImgH).record

\* C1 as stated: a scanned image is classified trainable iff its record has
\* a box, a CREST point and a CEJ point; every other scanned image is
\* classified held-out.
C1_TrainableIffComplete ==
  Exported =>
    \A f \in Scanned :
      /\ f \in ClassedTrainable <=> (HasRecord(f) /\ Complete(ItsRecord(f)))
      /\ f \in ClassedHeldOut <=> ~(HasRecord(f) /\ Complete(ItsRecord(f)))

\* C1 amended: a scanned image is classified trainable iff its annotation
\* file exists, its record was obtained (it was cached, or its image opened
\* and the file was loaded, which leaves it in the cache) and that record
\* has a box, a CREST point and a CEJ point; every other scanned image,
\* also one whose image fails to open, is classified held-out.
C1_TrainableIffObtainedComplete ==
  Exported =>
    \A f \in Scanned :
      LET trainable == /\ AnnotationPath(f) \in DOMAIN disk
                       /\ f \in DOMAIN cache
                       /\ Complete(cache[f])
      IN /\ f \in ClassedTrainable <=> trainable
         /\ f \in ClassedHeldOut <=> ~trainable

\* C1 witness: an export classified one file trainable, held out one whose
\* record lacks a required item, and held out one whose annotation is
\* complete but whose image does not open.
C1_Witness ==
  /\ Exported
  /\ ClassedTrainable # {}
  /\ \E f \in ClassedHeldOut :
       /\ f \in DOMAIN cache /\ ~Complete(cache[f])
  /\ \E f \in ClassedHeldOut :
       /\ images[f] = "corrupt" /\ f \notin DOMAIN cache
       /\ HasRecord(f) /\ Complete(ItsRecord(f))

\* The image sets of the destination.
TrainImages == dest.images["train"]

ValImages == dest.images["val"]

HoldingImages == dest.test_images

\* C2 as stated: after an export into an empty destination every scanned
\* image is in exactly one of images/train, images/val and the holding
\* directory.
C2_EveryImageInExactlyOneSet ==
  (Exported /\ last.fresh) =>
    \A f \in Scanned :
      \/ f \in TrainImages /\ f \notin ValImages /\ f \notin HoldingImages
      \/ f \notin TrainImages /\ f \in ValImages /\ f \notin HoldingImages
      \/ f \notin TrainImages /\ f \notin ValImages /\ f \in HoldingImages

\* floor(n * (1 - v)) for v = vnum / VDen in [0, 1]
FloorCut(n, vnum) == (n * (VDen - vnum)) \div VDen

\* The multiset of the entries of a list.
BagOf(xs) == [x \in Range(xs) |-> Cardinality({i \in DOMAIN xs : xs[i] = x})]

SplitRecords(split_name) == [i \in DOMAIN last[split_name] |-> cache[last[split_name][i]]]

SplitNames == {"train", "val"}

\* The label lines a record calls for: one per box that carries a label
\* other than "Unlabeled", in the order of the boxes.
LabelledBoxes(record) ==
  SelectSeq(record.bboxes,
            LAMBDA b : "label" \in DOMAIN b /\ b.label # "Unlabeled")

\* C5 as stated: for every exported record (a record of a split whose image
\* exists) the label file of its stem holds exactly one line per labelled
\* box, in the order of the boxes.
C5_OneLinePerLabelledBox ==
  Exported =>
    \A sn \in SplitNames :
      \A k \in DOMAIN SplitRecords(sn) :
        LET r == SplitRecords(sn)[k]
            boxes == LabelledBoxes(r)
        IN images[r.file_name] # "absent" =>
             /\ Stem(r.file_name) \in DOMAIN dest.labels[sn]
             /\ LET lines == dest.labels[sn][Stem(r.file_name)]
                IN /\ Len(lines) = Len(boxes)
                   /\ \A j \in DOMAIN boxes :
                        lines[j] = LabelLine(boxes[j], r.width, r.height)

\* Record number k of a split wrote the label file of its stem last: its
\* image exists and no later record of the split with that stem is exported.
WroteLabels(sn, k) ==
  LET rs == SplitRecords(sn)
  IN /\ images[rs[k].file_name] # "absent"
     /\ \A j \in (k + 1)..Len(rs) :
          ~(Stem(rs[j].file_name) = Stem(rs[k].file_name)
            /\ images[rs[j].file_name] # "absent")

\* The lines of the label file record number k of a split wrote.
LinesOf(sn, k) == dest.labels[sn][Stem(SplitRecords(sn)[k].file_name)]

\* The label files written by the last export, as (split, record number).
Written == {w \in SplitNames \X (1..Cardinality(Names)) :
              w[2] \in DOMAIN SplitRecords(w[1]) /\ WroteLabels(w[1], w[2])}

\* The position of a label in the fixed class list, counted from 0.
Position(label) == CHOOSE i \in 0..(Len(BBOX_CLASSES) - 1) : BBOX_CLASSES[i + 1] = label

Listed(label) == \E i \in DOMAIN BBOX_CLASSES : BBOX_CLASSES[i] = label

\* C6: the class index on a label line is the position of the box's label
\* in the fixed class list minus one, the index under which data.yaml lists
\* that name; a label that is not in the list gets class index 0.
C6_ClassIndex ==
  Exported =>
    /\ DOMAIN dest.names = 0..(Len(BBOX_CLASSES) - 2)
    /\ \A i \in DOMAIN dest.names : dest.names[i] = BBOX_CLASSES[i + 2]
    /\ \A w \in Written :
         LET boxes == LabelledBoxes(SplitRecords(w[1])[w[2]])
             lines == LinesOf(w[1], w[2])
         IN /\ Len(lines) = Len(boxes)
            /\ \A j \in DOMAIN boxes :
                 IF Listed(boxes[j].label)
                 THEN /\ lines[j][1] = Position(boxes[j].label) - 1
                      /\ dest.names[lines[j][1]] = boxes[j].label
                 ELSE lines[j][1] = 0

\* C6 witness: label lines were written for a box labelled "PDL" (class 2)
\* and for a box whose label "Molar" is not in the list (class 0).
C6_Witness ==
  /\ Exported
  /\ \E w \in Written : \E j \in DOMAIN LabelledBoxes(SplitRecords(w[1])[w[2]]) :
       /\ LabelledBoxes(SplitRecords(w[1])[w[2]])[j].label = "PDL"
       /\ LinesOf(w[1], w[2])[j][1] = 2
  /\ \E w \in Written : \E j \in DOMAIN LabelledBoxes(SplitRecords(w[1])[w[2]]) :
       /\ LabelledBoxes(SplitRecords(w[1])[w[2]])[j].label = "Molar"
       /\ LinesOf(w[1], w[2])[j][1] = 0

Abs(x) == IF x >= 0 THEN x ELSE -x

\* c millionths is num/den rounded to six decimals.
IsRounded(c, num, den) == 2 * Abs(c * den - num * 1000000) <= den

\* An oriented box with rotation 0 that lies inside a w x h image.
UprightInside(b, w, h) ==
  /\ "cx" \in DOMAIN b /\ "rotation" \in DOMAIN b /\ b.rotation = 0
  /\ b.width > 0 /\ b.height > 0
  /\ 0 <= 2 * b.cx - b.width /\ 2 * b.cx + b.width <= 2 * w
  /\ 0 <= 2 * b.cy - b.height /\ 2 * b.cy + b.height <= 2 * h

\* The label line of the box of section 8: Tooth, 200x100 at (500, 400) in
\* a 1000x800 image.
ExampleLine == <<0, 400000, 437500, 600000, 437500, 600000, 562500, 400000, 562500>>

\* C7: the label line of a box with rotation 0 inside the image lists the
\* top-left, top-right, bottom-right and bottom-left corners of
\* [cx-w/2, cx+w/2] x [cy-h/2, cy+h/2], x over the image width and y over
\* the image height; the box of section 8 gives ExampleLine.
C7_UprightCorners ==
  Exported =>
    \A w \in Written :
      LET r == SplitRecords(w[1])[w[2]]
          boxes == LabelledBoxes(r)
          lines == LinesOf(w[1], w[2])
      IN \A j \in DOMAIN boxes :
           LET b == boxes[j]
           IN UprightInside(b, r.width, r.height) =>
                /\ j \in DOMAIN lines
                /\ Len(lines[j]) = 9
                /\ IsRounded(lines[j][2], 2 * b.cx - b.width, 2 * r.width)
                /\ IsRounded(lines[j][3], 2 * b.cy - b.height, 2 * r.height)
                /\ IsRounded(lines[j][4], 2 * b.cx + b.width, 2 * r.width)
                /\ IsRounded(lines[j][5], 2 * b.cy - b.height, 2 * r.height)
                /\ IsRounded(lines[j][6], 2 * b.cx + b.width, 2 * r.width)
                /\ IsRounded(lines[j][7], 2 * b.cy + b.height, 2 * r.height)
                /\ IsRounded(lines[j][8], 2 * b.cx - b.width, 2 * r.width)
                /\ IsRounded(lines[j][9], 2 * b.cy + b.height, 2 * r.height)
                /\ (r.width = 1000 /\ r.height = 800 /\ b = Obb(500, 400, 200, 100, 0, "Tooth"))
                     => lines[j] = ExampleLine

\* C7 witness: the box of section 8 was exported and its line is ExampleLine.
C7_Witness ==
  /\ Exported
  /\ \E w \in Written :
       LET r == SplitRecords(w[1])[w[2]]
       IN /\ r.width = 1000 /\ r.height = 800
          /\ LabelledBoxes(r) = <<Obb(500, 400, 200, 100, 0, "Tooth")>>
          /\ LinesOf(w[1], w[2]) = <<ExampleLine>>

\* A box in the legacy form (xmin, ymin, xmax, ymax).
IsLegacy(b) == "cx" \notin DOMAIN b

\* The coordinates of a label line.
Coordinates(line) == {line[k] : k \in 2..Len(line)}

\* C8: every coordinate in a label file lies in [0, 1]; a corner outside the
\* image is clamped on that axis to 0 or 1, and a box with corners outside
\* the image still has its line.
C8_CoordinatesInUnitRange ==
  Exported =>
    /\ \A sn \in SplitNames : \A st \in DOMAIN dest.labels[sn] :
         \A j \in DOMAIN dest.labels[sn][st] :
           \A c \in Coordinates(dest.labels[sn][st][j]) : 0 <= c /\ c <= 1000000
    /\ \A w \in Written :
         LET r == SplitRecords(w[1])[w[2]]
             boxes == LabelledBoxes(r)
             lines == LinesOf(w[1], w[2])
         IN /\ Len(lines) = Len(boxes)
            /\ \A j \in DOMAIN boxes : \A m \in 1..4 :
                 LET g == BoxGeometry(boxes[j])
                     x10 == CornerX10(g, CornerSigns[m])
                     y10 == CornerY10(g, CornerSigns[m])
                 IN /\ x10 <= 0 => lines[j][2 * m] = 0
                    /\ x10 >= 10 * r.width => lines[j][2 * m] = 1000000
                    /\ y10 <= 0 => lines[j][2 * m + 1] = 0
                    /\ y10 >= 10 * r.height => lines[j][2 * m + 1] = 1000000

\* C8 witness: a box that lies wholly outside the image was exported, and
\* every coordinate of its line is 1.
C8_Witness ==
  /\ Exported
  /\ \E w \in Written :
       LET r == SplitRecords(w[1])[w[2]]
           boxes == LabelledBoxes(r)
       IN \E j \in DOMAIN boxes :
            /\ ~IsLegacy(boxes[j]) /\ boxes[j].rotation = 0
            /\ 2 * boxes[j].cx - boxes[j].width > 2 * r.width
            /\ 2 * boxes[j].cy - boxes[j].height > 2 * r.height
            /\ Coordinates(LinesOf(w[1], w[2])[j]) = {1000000}

\* The oriented box with the centre and extent of a legacy box and rotation
\* 0 (when the centre is a whole number of pixels).
HasTwin(b) == (b.xmin + b.xmax) % 2 = 0 /\ (b.ymin + b.ymax) % 2 = 0

Twin(b) ==
  [cx |-> (b.xmin + b.xmax) \div 2, cy |-> (b.ymin + b.ymax) \div 2,
   width |-> b.xmax - b.xmin, height |-> b.ymax - b.ymin,
   rotation |-> 0, label |-> b.label]

\* The record with box number i replaced by its twin.
WithTwin(r, i) == [r EXCEPT !.bboxes[i] = Twin(r.bboxes[i])]

\* The stage-2 manifest of a split.
Stage2(sn) == IF sn = "train" THEN dest.stage2_train ELSE dest.stage2_val

\* The records of a split the landmark export processes: the image exists
\* and opens, and the record has a box.
Cropped(sn) ==
  {k \in DOMAIN SplitRecords(sn) :
     /\ images[SplitRecords(sn)[k].file_name] = "ok"
     /\ Len(SplitRecords(sn)[k].bboxes) > 0}

\* C9: a legacy box is exported as the oriented box with cx = (xmin+xmax)/2,
\* cy = (ymin+ymax)/2, width = xmax-xmin, height = ymax-ymin and rotation 0:
\* same label line, same ROI manifest entry.
C9_LegacyAsOriented ==
  Exported =>
    /\ \A w \in Written :
         LET r == SplitRecords(w[1])[w[2]]
             boxes == LabelledBoxes(r)
             lines == LinesOf(w[1], w[2])
         IN /\ Len(lines) = Len(boxes)
            /\ \A j \in DOMAIN boxes :
                 (IsLegacy(boxes[j]) /\ HasTwin(boxes[j])) =>
                    lines[j] = LabelLine(Twin(boxes[j]), r.width, r.height)
    /\ \A sn \in SplitNames : \A k \in Cropped(sn) :
         LET r == SplitRecords(sn)[k]
         IN \A i \in DOMAIN r.bboxes :
              (IsLegacy(r.bboxes[i]) /\ HasTwin(r.bboxes[i])) =>
                 \E e \in DOMAIN Stage2(sn) :
                   Stage2(sn)[e] = RoiEntry(WithTwin(r, i), i - 1)

\* C9 witness: a record with a labelled legacy box was exported by both
\* exporters, and the box retains a point in its ROI.
C9_Witness ==
  /\ Exported
  /\ \E w \in Written :
       LET r == SplitRecords(w[1])[w[2]]
       IN /\ w[2] \in Cropped(w[1])
          /\ \E i \in DOMAIN r.bboxes :
               /\ IsLegacy(r.bboxes[i]) /\ HasTwin(r.bboxes[i])
               /\ r.bboxes[i].label # "Unlabeled"
               /\ \E e \in DOMAIN Stage2(w[1]) :
                    /\ Stage2(w[1])[e] = RoiEntry(WithTwin(r, i), i - 1)
                    /\ Stage2(w[1])[e].points # <<>>

\* rx and ry of the claim, in tenths of a pixel, for a box geometry g:
\* rx = dx*cos + dy*sin + w/2, ry = -dx*sin + dy*cos + h/2.
LocalX10(pt, g) ==
  LET dx2 == 2 * pt.x - g.cx2
      dy2 == 2 * pt.y - g.cy2
  IN dx2 * Cos5(g.rotation) + dy2 * Sin5(g.rotation) + 5 * g.w

LocalY10(pt, g) ==
  LET dx2 == 2 * pt.x - g.cx2
      dy2 == 2 * pt.y - g.cy2
  IN (0 - dx2) * Sin5(g.rotation) + dy2 * Cos5(g.rotation) + 5 * g.h

Retained(pt, g) ==
  /\ 0 <= LocalX10(pt, g) /\ LocalX10(pt, g) <= 10 * g.w
  /\ 0 <= LocalY10(pt, g) /\ LocalY10(pt, g) <= 10 * g.h

\* The points an ROI entry must list for the points of a record.
ExpectedPoints(points, g) ==
  LET kept == SelectSeq(points, LAMBDA pt : Retained(pt, g))
  IN [k \in 1..Len(kept) |->
       [class |-> kept[k].class, x10 |-> LocalX10(kept[k], g),
        y10 |-> LocalY10(kept[k], g),
        global_x |-> kept[k].x, global_y |-> kept[k].y]]

\* Entry e is the entry of box number i (from 1) of record r.
EntryOf(e, r, i) ==
  /\ e.file_name = RoiFileName(r.file_name, i - 1)
  /\ e.original_image = r.file_name
  /\ e.bbox = BoxGeometry(r.bboxes[i])

\* C10: every box of every processed record has a manifest entry, and each
\* entry lists exactly the points of its record with 0 <= rx <= w and
\* 0 <= ry <= h, in order, each with (rx, ry) and its original (px, py).
C10_RoiPoints ==
  Exported =>
    \A sn \in SplitNames :
      /\ \A k \in Cropped(sn) :
           LET r == SplitRecords(sn)[k]
           IN \A i \in DOMAIN r.bboxes :
                \E e \in DOMAIN Stage2(sn) :
                  /\ EntryOf(Stage2(sn)[e], r, i)
                  /\ Stage2(sn)[e].points = ExpectedPoints(r.points, BoxGeometry(r.bboxes[i]))
      /\ \A e \in DOMAIN Stage2(sn) :
           \E k \in Cropped(sn) :
             LET r == SplitRecords(sn)[k]
             IN \E i \in DOMAIN r.bboxes :
                  /\ EntryOf(Stage2(sn)[e], r, i)
                  /\ Stage2(sn)[e].points = ExpectedPoints(r.points, BoxGeometry(r.bboxes[i]))

\* C10 witness: the ROI of the box of section 8 keeps (500, 400) as
\* (100, 50) and drops (0, 0); and some record has a point on the border of
\* one ROI that is kept there and dropped from another ROI.
C10_Witness ==
  /\ Exported
  /\ \E sn \in SplitNames : \E e \in DOMAIN Stage2(sn) :
       /\ Stage2(sn)[e].bbox = [cx2 |-> 1000, cy2 |-> 800, w |-> 200, h |-> 100, rotation |-> 0]
       /\ Stage2(sn)[e].points =
            <<[class |-> "CEJ", x10 |-> 1000, y10 |-> 500, global_x |-> 500, global_y |-> 400]>>
  /\ \E sn \in SplitNames : \E e1, e2 \in DOMAIN Stage2(sn) :
       /\ Stage2(sn)[e1].original_image = Stage2(sn)[e2].original_image
       /\ \E p \in Range(Stage2(sn)[e1].points) :
            /\ p.x10 = 0
            /\ \A q \in Range(Stage2(sn)[e2].points) :
                 <<q.global_x, q.global_y>> # <<p.global_x, p.global_y>>

\* The boxes the landmark export processes in a split, as (record number,
\* box number), both from 1.
Slots(sn) ==
  UNION {{<<k, i>> : i \in DOMAIN SplitRecords(sn)[k].bboxes} : k \in Cropped(sn)}

\* The place in the manifest of the entry of a slot: the boxes of earlier
\* records come first, then the earlier boxes of the same record.
Place(sn, slot) ==
  Cardinality({p \in Slots(sn) : p[1] < slot[1] \/ (p[1] = slot[1] /\ p[2] <= slot[2])})

\* C11: for each record of a split whose image exists and opens, the stage-2
\* manifest holds exactly one entry per box of the record, labelled or not,
\* in order: named <stem>_roi_<i>.png with i the box's index in the record
\* from 0, width and height those of the box, with the source image name and
\* the box's cx, cy, width, height and rotation; and it holds nothing else.
C11_OneEntryPerBox ==
  Exported =>
    \A sn \in SplitNames :
      /\ Len(Stage2(sn)) = Cardinality(Slots(sn))
      /\ \A slot \in Slots(sn) :
           LET r == SplitRecords(sn)[slot[1]]
               b == r.bboxes[slot[2]]
               e == Stage2(sn)[Place(sn, slot)]
           IN /\ e.file_name = [stem |-> Stem(r.file_name), roi |-> slot[2] - 1]
              /\ e.original_image = r.file_name
              /\ e.bbox = BoxGeometry(b)
              /\ e.width = e.bbox.w /\ e.height = e.bbox.h
              /\ ~IsLegacy(b) =>
                   /\ e.width = b.width /\ e.height = b.height
                   /\ e.bbox.cx2 = 2 * b.cx /\ e.bbox.cy2 = 2 * b.cy
                   /\ e.bbox.rotation = b.rotation

\* C11 witness: a record with four boxes, two of them without a label, was
\* processed, and the entries of the unlabelled boxes are its second and
\* third entry.
C11_Witness ==
  /\ Exported
  /\ \E sn \in SplitNames : \E k \in Cropped(sn) :
       LET r == SplitRecords(sn)[k]
       IN /\ Len(r.bboxes) = 4
          /\ BoxLabel(r.bboxes[2]) = "Unlabeled" /\ "label" \notin DOMAIN r.bboxes[3]
          /\ Stage2(sn)[Place(sn, <<k, 2>>)].file_name = [stem |-> Stem(r.file_name), roi |-> 1]
          /\ Stage2(sn)[Place(sn, <<k, 3>>)].bbox =
               [cx2 |-> 600, cy2 |-> 600, w |-> 100, h |-> 100, rotation |-> 90]

\* The ROI file name of a slot of a split.
SlotFile(sn, slot) == RoiFileName(SplitRecords(sn)[slot[1]].file_name, slot[2] - 1)

\* The slot wrote its ROI file last: export_landmark runs on train, then on
\* val, and no later slot has the same file name.
WroteRoi(sn, slot) ==
  /\ \A p \in Slots(sn) :
       (SlotFile(sn, p) = SlotFile(sn, slot)) => p[1] <= slot[1]
  /\ sn = "train" => \A p \in Slots("val") : SlotFile("val", p) # SlotFile(sn, slot)

\* The ROI files of the last export with the box each was cropped for.
RoiCrops ==
  {[roi |-> dest.rois[SlotFile(sn, slot)],
    g |-> BoxGeometry(SplitRecords(sn)[slot[1]].bboxes[slot[2]])] :
     <<sn, slot>> \in {q \in SplitNames \X ((1..Cardinality(Names)) \X (1..Len(BodyMixed.bboxes))) :
                        q[2] \in Slots(q[1]) /\ WroteRoi(q[1], q[2])}}

\* C12 as stated: the rectangle cropped for a box is
\* [cx-w/2, cy-w/2, cx+w/2, cy+h/2] (in tenths of a pixel, centre doubled).
C12_CropTopFromWidth ==
  Exported =>
    \A c \in RoiCrops :
      /\ c.roi.left = 5 * c.g.cx2 - 5 * c.g.w
      /\ c.roi.top = 5 * c.g.cy2 - 5 * c.g.w
      /\ c.roi.right = 5 * c.g.cx2 + 5 * c.g.w
      /\ c.roi.bottom = 5 * c.g.cy2 + 5 * c.g.h

\* C12 amended: the rectangle cropped for a box is
\* [cx-w/2, cy-h/2, cx+w/2, cy+h/2]: left = cx-w/2, top = cy-h/2,
\* right = cx+w/2, bottom = cy+h/2, taken from the image rotated by the
\* box's rotation about (cx, cy).
C12_CropRectangle ==
  Exported =>
    \A c \in RoiCrops :
      /\ c.roi.left = 5 * c.g.cx2 - 5 * c.g.w
      /\ c.roi.top = 5 * c.g.cy2 - 5 * c.g.h
      /\ c.roi.right = 5 * c.g.cx2 + 5 * c.g.w
      /\ c.roi.bottom = 5 * c.g.cy2 + 5 * c.g.h
      /\ c.roi.rotation = c.g.rotation
      /\ c.roi.center2 = <<c.g.cx2, c.g.cy2>>

\* C12 witness: the ROI of the 200x100 box at (500, 400) was cropped as
\* [400, 350, 600, 450].
C12_Witness ==
  /\ Exported
  /\ \E c \in RoiCrops :
       /\ c.g = [cx2 |-> 1000, cy2 |-> 800, w |-> 200, h |-> 100, rotation |-> 0]
       /\ c.roi.left = 4000 /\ c.roi.top = 3500
       /\ c.roi.right = 6000 /\ c.roi.bottom = 4500

\* What the annotation directory holds for a file: the record of its
\* annotation file, a field the file lacks taking its default, or a new
\* empty record of the given size when there is no file.
FromDisk(f, w, h) ==
  IF AnnotationPath(f) \in DOMAIN disk
  THEN LET data == disk[AnnotationPath(f)]
       IN [file_name |-> IF "file_name" \in DOMAIN data THEN data.file_name ELSE f,
           width |-> IF "width" \in DOMAIN data THEN data.width ELSE w,
           height |-> IF "height" \in DOMAIN data THEN data.height ELSE h,
           points |-> IF "points" \in DOMAIN data THEN data.points ELSE <<>>,
           bboxes |-> IF "bboxes" \in DOMAIN data THEN data.bboxes ELSE <<>>,
           bone_lines |-> IF "bone_lines" \in DOMAIN data THEN data.bone_lines ELSE <<>>]
  ELSE [file_name |-> f, width |-> w, height |-> h,
        points |-> <<>>, bboxes |-> <<>>, bone_lines |-> <<>>]

\* The step is a call of the named method.
Called(name) == nops' = nops + 1 /\ op'.name = name

\* C13: set_image_directory on a path that is not a directory raises and
\* leaves image_dir (with it annotation_dir) and the cache unchanged; on a
\* directory it sets them and leaves the cache empty, and writes nothing;
\* the load that follows it is not served from the cache and returns what
\* the disk holds.
C13_SetImageDirectory ==
  [][/\ Called("set_image_directory") =>
         /\ op'.raised <=> op'.path # RootDir
         /\ disk' = disk
         /\ IF op'.raised
            THEN image_dir' = image_dir /\ cache' = cache
            ELSE image_dir' = op'.path /\ cache' = <<>>
     /\ (/\ op.name = "set_image_directory" /\ ~op.raised
         /\ Called("load") /\ ~op'.raised) =>
           /\ ~op'.hit
           /\ op'.result = FromDisk(op'.file_name, op'.width, op'.height)
           /\ cache' = (op'.file_name :> op'.result)]_vars

\* C13 witness: a file that was cached before set_image_directory has been
\* loaded right after it, and the record came from the annotation file.
C13_Witness ==
  /\ prev.name = "set_image_directory" /\ ~prev.raised
  /\ op.name = "load" /\ ~op.raised
  /\ op.file_name \in DOMAIN prev.dropped
  /\ ~op.hit
  /\ AnnotationPath(op.file_name) \in DOMAIN disk
  /\ op.result = disk[AnnotationPath(op.file_name)]
  /\ op.result.bboxes # <<>>

\* C14: load(file_name, w, h) that returns gives the record cached under
\* file_name when there is one and leaves the cache as it is; otherwise it
\* gives the record of the annotation file when that exists, absent points,
\* bboxes and bone_lines being empty lists, else a new empty record of
\* width w and height h, and caches it under file_name; it never creates
\* or modifies a file.
C14_Load ==
  [][(Called("load") /\ ~op'.raised) =>
       LET f == op'.file_name
       IN /\ op'.hit <=> f \in DOMAIN cache
          /\ IF f \in DOMAIN cache
             THEN /\ op'.result = cache[f]
                  /\ cache' = cache
             ELSE /\ op'.result = FromDisk(f, op'.width, op'.height)
                  /\ DOMAIN cache' = DOMAIN cache \cup {f}
                  /\ cache'[f] = op'.result
                  /\ \A g \in DOMAIN cache : cache'[g] = cache[g]
          /\ disk' = disk
          /\ dest' = dest]_vars

\* C14 witness: load has read an annotation file that lacks points, bboxes
\* and bone_lines, returned a record with the three lists empty and the
\* fallback size, and cached it.
C14_Witness ==
  /\ op.name = "load" /\ ~op.raised /\ ~op.hit
  /\ AnnotationPath(op.file_name) \in DOMAIN disk
  /\ DOMAIN disk[AnnotationPath(op.file_name)] \cap {"points", "bboxes", "bone_lines"} = {}
  /\ op.result.points = <<>> /\ op.result.bboxes = <<>> /\ op.result.bone_lines = <<>>
  /\ op.result.width = op.width /\ op.result.height = op.height
  /\ cache[op.file_name] = op.result

\* C15: load(r.file_name, ...) right after save(r) returns a record equal to
\* r, served from the cache; so does the load after save(r) and a
\* set_image_directory on the same directory, which cleared the cache, read
\* from the annotation file.
C15_SaveLoadRoundTrip ==
  [][/\ (/\ op.name = "save" /\ ~op.raised
         /\ Called("load") /\ op'.file_name = op.record.file_name) =>
           /\ ~op'.raised /\ op'.hit
           /\ op'.result = op.record
     /\ (/\ prev.name = "save" /\ ~prev.raised
         /\ op.name = "set_image_directory" /\ ~op.raised
         /\ Called("load") /\ op'.file_name = prev.record.file_name) =>
           /\ ~op'.raised /\ ~op'.hit
           /\ op'.result = prev.record]_vars

\* C15 witness: a record with legacy, unlabelled and rotated boxes, which
\* only a save can have put on disk, was dropped from the cache by
\* set_image_directory and then loaded back from its annotation file.
C15_Witness ==
  /\ prev.name = "set_image_directory" /\ ~prev.raised
  /\ op.name = "load" /\ ~op.raised /\ ~op.hit
  /\ op.result = RecordOf("a.png", BodyMixed)
  /\ op.file_name = "a.png"
  /\ "a.png" \in DOMAIN prev.dropped /\ prev.dropped["a.png"] = op.result

\* The aggregate annotations/points.json as export_all wrote it.
Aggregate == disk["points"].images

\* The place of a file name in the order of names.
NameRank(f) == CHOOSE k \in DOMAIN SortedNames : SortedNames[k] = f

\* C16 as stated: the aggregate export_all wrote has exactly one entry for
\* every image whose record was persisted, with the content persisted last,
\* sorted by file name, and no other entry.
C16_AggregateOfPersisted ==
  (op = Did("export_all")) =>
    /\ \A f \in DOMAIN persisted :
         /\ Cardinality({i \in DOMAIN Aggregate : Aggregate[i].file_name = f}) = 1
         /\ \A i \in DOMAIN Aggregate :
              (Aggregate[i].file_name = f) =>
                 \A key \in DOMAIN persisted[f] : Aggregate[i][key] = persisted[f][key]
    /\ \A i \in DOMAIN Aggregate : Aggregate[i].file_name \in DOMAIN persisted
    /\ \A i, j \in DOMAIN Aggregate :
         (i < j) => NameRank(Aggregate[i].file_name) < NameRank(Aggregate[j].file_name)

\* Classifying f fails: it has an annotation file and no cached record, and
\* its image does not open or its annotation file does not decode.
FailsToLoad(f) ==
  /\ f \notin DOMAIN cache
  /\ AnnotationPath(f) \in DOMAIN disk
  /\ images[f] # "ok" \/ IsCorrupt(disk[AnnotationPath(f)])

\* C18: export_datasets with the directory set does not raise; a scanned
\* file whose image or annotation fails to load is classified held-out and
\* copied to the holding directory, each scanned file is classified once,
\* and the export is completed (data.yaml is written).
C18_LoadFailureHeldOut ==
  [][(Called("export_datasets") /\ image_dir # NoDir) =>
       /\ ~op'.raised
       /\ \A f \in Range(last'.all_files) :
            FailsToLoad(f) =>
              /\ f \in Range(last'.unannotated)
              /\ f \notin Range(last'.annotated)
              /\ f \in dest'.test_images
       /\ Range(last'.annotated) \cup Range(last'.unannotated) = Range(last'.all_files)
       /\ Len(last'.annotated) + Len(last'.unannotated) = Len(last'.all_files)
       /\ dest'.names = YamlNames]_vars

\* C18 witness: the annotation file of the first scanned files does not
\* decode, they were held out, and a file scanned after them was classified
\* trainable and exported.
C18_Witness ==
  /\ Exported
  /\ \E f \in ClassedHeldOut :
       /\ f \notin DOMAIN cache
       /\ AnnotationPath(f) \in DOMAIN disk /\ IsCorrupt(disk[AnnotationPath(f)])
       /\ f \in HoldingImages
       /\ \E g \in ClassedTrainable : NameRank(f) < NameRank(g) /\ g \in TrainImages

\* The records of a split whose source image is missing / is there.
Missing(sn) == {k \in DOMAIN SplitRecords(sn) : images[SplitRecords(sn)[k].file_name] = "absent"}

Present(sn) == DOMAIN SplitRecords(sn) \ Missing(sn)

\* C19: after an export into an empty destination, a record of a split whose
\* source image is missing has no image copy, no label file (none under its
\* stem, unless a record of the split whose image is there has the same
\* stem), no ROI file and no manifest entry; the export has not raised; and
\* every record of the split whose image is there has its image copy and its
\* label file, and its manifest entries if the image opens and it has a box.
C19_MissingSourceSkipped ==
  (Exported /\ last.fresh) =>
    \A sn \in SplitNames :
      /\ \A k \in Missing(sn) :
           LET r == SplitRecords(sn)[k]
           IN /\ r.file_name \notin dest.images[sn]
              /\ (\A j \in Present(sn) : Stem(SplitRecords(sn)[j].file_name) # Stem(r.file_name))
                   => Stem(r.file_name) \notin DOMAIN dest.labels[sn]
              /\ \A i \in DOMAIN Stage2(sn) : Stage2(sn)[i].original_image # r.file_name
              /\ \A f \in DOMAIN dest.rois : dest.rois[f].source # r.file_name
      /\ \A k \in Present(sn) :
           LET r == SplitRecords(sn)[k]
           IN /\ r.file_name \in dest.images[sn]
              /\ Stem(r.file_name) \in DOMAIN dest.labels[sn]
              /\ k \in Cropped(sn) =>
                   \E i \in DOMAIN Stage2(sn) : Stage2(sn)[i].original_image = r.file_name

\* C19 witness: a split holds a record with boxes whose source image is
\* missing, which left nothing in the destination, and a record whose image
\* is there, which was exported with its ROIs.
C19_Witness ==
  /\ Exported /\ last.fresh
  /\ \E sn \in SplitNames :
       /\ \E k \in Missing(sn) :
            /\ Len(SplitRecords(sn)[k].bboxes) > 0
            /\ Stem(SplitRecords(sn)[k].file_name) \notin DOMAIN dest.labels[sn]
       /\ \E j \in Cropped(sn) :
            /\ SplitRecords(sn)[j].file_name \in dest.images[sn]
            /\ \E i \in DOMAIN Stage2(sn) :
                 Stage2(sn)[i].original_image = SplitRecords(sn)[j].file_name

\* The operations that need the annotation directory.
NeedDirectory == {"load", "save", "export_all", "export_datasets"}

\* C20: a call of load, save, export_all or export_datasets made while no
\* directory has been set raises, and leaves the annotation files, the
\* export destination and the cache as they were.
C20_NoDirectoryRaises ==
  [][(nops' = nops + 1 /\ op'.name \in NeedDirectory /\ image_dir = NoDir) =>
       /\ op'.raised
       /\ disk' = disk /\ persisted' = persisted
       /\ dest' = dest
       /\ cache' = cache
       /\ image_dir' = NoDir]_vars

\* C20 witness: with no directory set, and annotation files of an earlier
\* session in the directory to be opened, a load or save and then an export
\* were called; both raised and nothing was cached or written.
C20_Witness ==
  /\ image_dir = NoDir
  /\ prev.name \in {"load", "save"} /\ prev.raised
  /\ op.name \in {"export_all", "export_datasets"} /\ op.raised
  /\ cache = <<>> /\ dest = EmptyDest
  /\ disk \in InitDisks /\ disk # <<>>

\* C17 as stated: an annotation file is written only by the autosave of
\* annotations the user has changed since the image was displayed, or by a
\* save the user asks for; displaying an image writes nothing.
C17_DisplayDoesNotWrite ==
  [][(nops' = nops + 1 /\ op'.wrote # None) => (edited \/ op'.explicit)]_vars

\* C21 as stated: after an export the holding directory holds exactly the
\* images that export classified held-out, and none it classified trainable.
C21_HoldingIsHeldOut ==
  Exported =>
    /\ HoldingImages = ClassedHeldOut
    /\ HoldingImages \cap ClassedTrainable = {}

\* The list a setter of the canvas was just called with.
Hydrated(name) == op.name = name /\ nops > 0

\* C22 as stated: after set_bboxes, serialize_bboxes returns one box per box
\* given, each with cx, cy, width, height, rotation and label, and a box
\* given in the legacy form has rotation 0.
C22_LegacyRotationZero ==
  Hydrated("set_bboxes") =>
    LET given == op.args
        out == SerializeBboxes(canvas)
    IN /\ Len(out) = Len(given)
       /\ \A i \in DOMAIN given :
            /\ {"cx", "cy", "width", "height", "rotation", "label"} \subseteq DOMAIN out[i]
            /\ IsLegacy(given[i]) => out[i].rotation = 0

\* The points C23 speaks of: x, y and a class among CEJ, CREST, APEX.
PlainPoints(points) ==
  \A i \in DOMAIN points :
    /\ {"x", "y", "class"} \subseteq DOMAIN points[i]
    /\ points[i].class \in LANDMARK_CLASSES

\* C23 as stated: set_points then serialize_points returns the points given,
\* in order, with the same x, y and class (whole coordinates are their own
\* rounding) and the radius that was given; set_bboxes then serialize_bboxes
\* returns the geometry and the label of each box given.
C23_HydrateRoundTrip ==
  /\ (Hydrated("set_points") /\ PlainPoints(op.args)) =>
       LET given == op.args
           out == SerializePoints(canvas)
       IN /\ Len(out) = Len(given)
          /\ \A i \in DOMAIN given :
               /\ out[i].x = given[i].x /\ out[i].y = given[i].y
               /\ out[i].class = given[i].class
               /\ "radius" \in DOMAIN given[i] => out[i].radius = given[i].radius
  /\ Hydrated("set_bboxes") =>
       LET given == op.args
           out == SerializeBboxes(canvas)
       IN /\ Len(out) = Len(given)
          /\ \A i \in DOMAIN given :
               /\ 2 * out[i].cx = BoxGeometry(given[i]).cx2
               /\ 2 * out[i].cy = BoxGeometry(given[i]).cy2
               /\ out[i].width = BoxGeometry(given[i]).w
               /\ out[i].height = BoxGeometry(given[i]).h
               /\ ~IsLegacy(given[i]) => out[i].rotation = BoxGeometry(given[i]).rotation
               /\ "label" \in DOMAIN given[i] => out[i].label = given[i].label

\* The kinds of item of which one is selected.
SelectedKinds ==
  {kind \in {"point", "bbox", "bone_line"} :
     \/ kind = "point" /\ canvas.selected_point_id # None
     \/ kind = "bbox" /\ canvas.selected_bbox_id # None
     \/ kind = "bone_line" /\ canvas.selected_bone_line_id # None}

\* C29 as stated: at most one kind of item is selected, a selected id is the
\* id of an item of the canvas, and nothing is selected after deselect_all
\* or clear_selection.
C29_OneSelection ==
  /\ Cardinality(SelectedKinds) <= 1
  /\ canvas.selected_point_id # None =>
       \E k \in DOMAIN canvas.point_ids : canvas.point_ids[k] = ValueOf(canvas.selected_point_id)
  /\ canvas.selected_bbox_id # None =>
       \E k \in DOMAIN canvas.bboxes : canvas.bboxes[k].id = ValueOf(canvas.selected_bbox_id)
  /\ canvas.selected_bone_line_id # None =>
       \E k \in DOMAIN canvas.bone_line_ids :
         canvas.bone_line_ids[k] = ValueOf(canvas.selected_bone_line_id)
  /\ (Hydrated("deselect_all") \/ Hydrated("clear_selection")) => SelectedKinds = {}

\* What load(f) does with an empty cache and the annotation files d.
LoadAfterClear(d, f) ==
  IF LoadRaises(<<>>, d, f) THEN [raised |-> TRUE]
  ELSE [raised |-> FALSE, record |-> LoadResult(<<>>, d, f, ImgW, ImgH).record]

\* The per-image annotation files.
PerImageFiles(d) == [st \in DOMAIN d \ {"points"} |-> d[st]]

\* C24 as stated: save(r) leaves, for every other image file f of the
\* directory, the cache entry of f and what load(f) returns after the cache
\* is cleared as they were; export_all changes no per-image annotation file.
C24_SaveTouchesOneRecord ==
  [][/\ (Called("save") /\ ~op'.raised) =>
          \A f \in Names \ {op'.record.file_name} :
            images[f] # "absent" =>
              /\ (f \in DOMAIN cache') = (f \in DOMAIN cache)
              /\ f \in DOMAIN cache => cache'[f] = cache[f]
              /\ LoadAfterClear(disk', f) = LoadAfterClear(disk, f)
     /\ Called("export_all") => PerImageFiles(disk') = PerImageFiles(disk)]_vars

\* The records of the last export, as (split, place in the split).
ExportedRecords == {<<sn, k>> : sn \in SplitNames, k \in 1..3} \cap
                   UNION {{<<sn, k>> : k \in Present(sn)} : sn \in SplitNames}

\* The files the export writes for a record: the image copy, the label
\* file, and one ROI file per box if the image opens.
OutputsOf(p) ==
  LET r == SplitRecords(p[1])[p[2]]
  IN {<<"images", p[1], r.file_name>>, <<"labels", p[1], Stem(r.file_name)>>}
       \cup (IF p[2] \in Cropped(p[1])
             THEN {<<"rois", Stem(r.file_name), i - 1>> : i \in DOMAIN r.bboxes}
             ELSE {})

\* C25 as stated: in one export no two trainable records write the same
\* file.
C25_OutputsDisjoint ==
  Exported =>
    \A p, q \in ExportedRecords : p # q => OutputsOf(p) \cap OutputsOf(q) = {}

\* A trainable record of the last export one of whose boxes raises.
FailsMidRecord(p) ==
  /\ p[2] \in Cropped(p[1])
  /\ \E i \in DOMAIN SplitRecords(p[1])[p[2]].bboxes :
       BoxRaises(SplitRecords(p[1])[p[2]].bboxes[i])

\* C26 as stated: a record whose processing fails during landmark export
\* has no entry in the stage-2 manifest.
C26_FailedRecordSkippedWhole ==
  Exported =>
    \A p \in ExportedRecords :
      FailsMidRecord(p) =>
        \A k \in DOMAIN Stage2(p[1]) :
          Stage2(p[1])[k].original_image # SplitRecords(p[1])[p[2]].file_name

\* C28 as stated: while the application runs, current_index is -1 or a
\* valid index of image_files, and then image_files[current_index] is the
\* image on the canvas.
C28_IndexNamesCanvasImage ==
  running =>
    \/ current_index = -1
    \/ /\ 0 <= current_index
       /\ current_index < Len(image_files)
       /\ canvas.image = image_files[current_index + 1]

\* The point lists the window holds after the user added n points, up to
\* MaxEdits, to a displayed image whose record had the points base.
RECURSIVE WithAdded(_, _)
WithAdded(c, n) ==
  IF n = 0 THEN c ELSE WithAdded(CreatePoint(c, "CEJ", 10, 10, DEFAULT_RADIUS), n - 1)

EditedPoints ==
  {SerializePoints(WithAdded(SetPoints(CanvasLoadImage(EmptyCanvas, "a.png"), base), n)) :
     base \in {<<>>, BodyTooth.points}, n \in 1..MaxEdits}

\* The user has just edited the displayed image f, whose points are now P.
JustEdited(f, P) ==
  /\ running
  /\ op.name = "add_point_at"
  /\ edited
  /\ autosave_timer
  /\ canvas.image = f
  /\ pending_points = Some(P)

\* The annotation file of f holds the points P.
OnDisk(f, P) ==
  /\ f \in DOMAIN persisted
  /\ "points" \in DOMAIN persisted[f]
  /\ persisted[f].points = P

\* C27 as stated: an edit of the displayed image that started the autosave
\* timer is eventually written under that image's file name, whatever
\* follows, unless the application stops.
C27_EditEventuallyWritten ==
  \A f \in Names : \A P \in EditedPoints :
    JustEdited(f, P) ~> (OnDisk(f, P) \/ ~running)

\* The first and the last vertex of a line.
Endpoints(line) == {line[1], line[Len(line)]}

\* The CREST points of a list, by position.
CrestAt(points) == {k \in DOMAIN points : points[k].class = "CREST"}

\* C30: in the file the script writes, both endpoints of every bone line
\* have a CREST point nearer than 2.0 pixels, and no CREST point was added
\* within 2.0 pixels of a CREST point that was already there.
C30_EndpointsHaveCrest ==
  script.pc = "saved" =>
    /\ \A l \in DOMAIN script.output.bone_lines :
         \A pt \in Endpoints(script.output.bone_lines[l]) :
           \E k \in CrestAt(script.output.points) : Near(script.output.points[k], pt)
    /\ \A j, k \in CrestAt(script.output.points) :
         j < k => ~Near(script.output.points[j], script.output.points[k])

\* A file is written where an endpoint got no CREST point of its own, one
\* of another endpoint being near enough, and where a CEJ point lies on an
\* endpoint.
C30_Witness ==
  /\ script.pc = "saved"
  /\ \E l \in DOMAIN script.output.bone_lines :
       \E pt \in Endpoints(script.output.bone_lines[l]) :
         /\ \A k \in CrestAt(script.output.points) :
              script.output.points[k].x # pt.x \/ script.output.points[k].y # pt.y
         /\ \E k \in DOMAIN script.output.points :
              script.output.points[k].class = "CEJ" /\ Near(script.output.points[k], pt)

====
